---------------------------- MODULE Spec2Model ----------------------------
(***************************************************************************)
(* Model of the watchbill core: the Month aggregate (src/src/month.py),    *)
(* the Watchstander objects it holds by reference (src/src/watchstander.py)*)
(* and the calendar classifier (src/src/month_vector_generator.py).        *)
(*                                                                         *)
(* Conventions.                                                            *)
(*  - Python lists are sequences; Python index i is TLA+ index i+1.        *)
(*  - Python floats are modelled as exact rationals <<num, den>> in lowest *)
(*    terms with den > 0; where a comparison turns on the rounding of the  *)
(*    float (rule 6 of the evaluator) the rounding is computed.            *)
(*  - Python dicts are functions; a tuple key (year, month) and a string   *)
(*    key "year-month" are kept apart (TupleKey, StrKey).                  *)
(*  - ret is the outcome of the most recent call: what it returned or what *)
(*    it raised.                                                           *)
(***************************************************************************)
EXTENDS Integers, Sequences, FiniteSets, TLC

VARIABLES
    year,                  \* Month.year
    month,                 \* Month.month
    month_vector,          \* Month.month_vector
    days_in_month,         \* Month.days_in_month
    watchstanders,         \* Month.watchstanders: objects in dict insertion order
    actual_watch_points,   \* Month.actual_watch_points: name -> points
    availability_vectors,  \* Watchstander.availability_vectors[(year, month)], per object
    watch_percentage,      \* Watchstander.watch_percentage, per object
    points_deviation,      \* Watchstander.points_deviation["year-month"], per object
    ret                    \* outcome of the most recent call

vars == <<year, month, month_vector, days_in_month, watchstanders,
          actual_watch_points, availability_vectors, watch_percentage,
          points_deviation, ret>>

-----------------------------------------------------------------------------
(* Rationals *)

RECURSIVE GCD(_, _)
GCD(a, b) == IF b = 0 THEN a ELSE GCD(b, a % b)

Abs(x) == IF x < 0 THEN -x ELSE x

Norm(q) ==
    LET n == q[1]
        d == q[2]
        g == GCD(Abs(n), Abs(d))
        s == IF d < 0 THEN -1 ELSE 1
    IN  IF n = 0 THEN <<0, 1>> ELSE <<(s * n) \div g, (s * d) \div g>>

Rat(n) == <<n, 1>>
RatAdd(p, q) == Norm(<<p[1] * q[2] + q[1] * p[2], p[2] * q[2]>>)
RatSub(p, q) == Norm(<<p[1] * q[2] - q[1] * p[2], p[2] * q[2]>>)
RatMul(p, q) == Norm(<<p[1] * q[1], p[2] * q[2]>>)
RatDiv(p, q) == Norm(<<p[1] * q[2], p[2] * q[1]>>)
RatGt0(p) == p[1] > 0

\* sum(...) of entries lo..hi of a list of numbers, added by halves (the
\* sum of rationals does not depend on the order).
RECURSIVE SumList(_, _, _)
SumList(s, lo, hi) ==
    IF lo > hi THEN <<0, 1>>
    ELSE IF lo = hi THEN s[lo]
    ELSE LET mid == (lo + hi) \div 2
         IN  RatAdd(SumList(s, lo, mid), SumList(s, mid + 1, hi))

-----------------------------------------------------------------------------
(* Calendar arithmetic of the Python standard library (datetime, calendar) *)

IsLeap(y) == (y % 4 = 0) /\ ((y % 100 # 0) \/ (y % 400 = 0))

\* calendar.monthrange(y, m)[1]
DaysInMonth(y, m) ==
    IF m = 2 THEN (IF IsLeap(y) THEN 29 ELSE 28)
    ELSE IF m \in {4, 6, 9, 11} THEN 30 ELSE 31

RECURSIVE DaysBeforeMonth(_, _)
DaysBeforeMonth(y, m) ==
    IF m = 1 THEN 0 ELSE DaysBeforeMonth(y, m - 1) + DaysInMonth(y, m - 1)

\* date(y, m, d).toordinal()
Ordinal(y, m, d) ==
    LET p == y - 1
    IN  p * 365 + (p \div 4) - (p \div 100) + (p \div 400)
        + DaysBeforeMonth(y, m) + d

\* date(y, m, d).weekday(): Monday = 0 ... Sunday = 6
Weekday(y, m, d) == (Ordinal(y, m, d) + 6) % 7

-----------------------------------------------------------------------------
(* month_vector_generator.py *)

WORKDAY == 0
PRE_WEEKEND == 1
WEEKEND == 2
POST_WEEKEND == 3

\* while d.weekday() != wd or d.day > maxday: d = d.replace(day=d.day + 1)
RECURSIVE SearchForward(_, _, _, _, _)
SearchForward(y, m, d, wd, maxday) ==
    IF Weekday(y, m, d) # wd \/ d > maxday
    THEN SearchForward(y, m, d + 1, wd, maxday)
    ELSE d

\* while d.weekday() != wd: d = d.replace(day=d.day - 1)
RECURSIVE SearchBackward(_, _, _, _)
SearchBackward(y, m, d, wd) ==
    IF Weekday(y, m, d) # wd THEN SearchBackward(y, m, d - 1, wd) ELSE d

\* The set of <<month, day>> dates of the given year.
get_federal_holidays(y) ==
    { <<1, 1>>,
      <<1, SearchForward(y, 1, 1, 0, 21)>>,
      <<2, SearchForward(y, 2, 1, 0, 21)>>,
      <<5, SearchBackward(y, 5, 31, 0)>>,
      <<6, 19>>,
      <<7, 4>>,
      <<9, SearchForward(y, 9, 1, 0, 31)>>,
      <<10, SearchForward(y, 10, 1, 0, 14)>>,
      <<11, 11>>,
      <<11, SearchForward(y, 11, 1, 3, 28)>>,
      <<12, 25>> }

\* A variant of the default coding below whose first test is one weekday
\* too wide: Friday counts as a full workday.
DefaultCodeFridayAsWorkday(wd) ==
    IF wd <= 4 THEN WORKDAY
    ELSE IF wd = 5 THEN WEEKEND
    ELSE POST_WEEKEND

DefaultCode(wd) ==
    IF wd < 4 THEN WORKDAY
    ELSE IF wd = 4 THEN PRE_WEEKEND
    ELSE IF wd = 5 THEN WEEKEND
    ELSE POST_WEEKEND

\* Lines 70-79: default coding by weekday.
DefaultVector(y, m) ==
    [i \in 1..DaysInMonth(y, m) |-> DefaultCode(Weekday(y, m, i))]

\* Lines 81-83: custom days off.
ApplyDaysOff(mv, days_off) ==
    [i \in 1..Len(mv) |-> IF i \in days_off THEN WEEKEND ELSE mv[i]]

\* mv[i] := v when Python index i-1 passes the bounds test of the code.
SetIf(mv, cond, i, v) ==
    IF cond THEN [mv EXCEPT ![i] = v] ELSE mv

\* A variant of the holiday adjustment below that, for a Friday holiday,
\* also marks the Sunday after it as the final day of the break.
ApplyHolidayMarkingFinalDay(mv, y, m, d) ==
    LET wd == Weekday(y, m, d)
        n == Len(mv)
        idx == d - 1
    IN  IF ~(0 <= idx /\ idx < n) THEN mv
        ELSE IF wd \in {3, 4, 0} THEN
            LET a == SetIf(mv, idx - 1 >= 0, d - 1, PRE_WEEKEND)
                b == [a EXCEPT ![d] = WEEKEND]
                c == SetIf(b, idx + 1 < n, d + 1, WEEKEND)
            IN  SetIf(c, wd = 4 /\ idx + 2 < n, d + 2, POST_WEEKEND)
        ELSE IF wd = 1 THEN
            LET a == SetIf(mv, idx - 1 >= 0, d - 1, PRE_WEEKEND)
                a2 == SetIf(a, idx - 1 >= 0, d - 1, WEEKEND)
                b == [a2 EXCEPT ![d] = WEEKEND]
            IN  SetIf(b, idx + 1 < n, d + 1, WEEKEND)
        ELSE mv

\* A variant of the holiday adjustment below without the lower bounds test:
\* the day before a holiday on the 1st is looked up from the end of the
\* list, as Python's index -1 does.
ApplyHolidayWrapping(mv, y, m, d) ==
    LET wd == Weekday(y, m, d)
        n == Len(mv)
        idx == d - 1
        before == IF idx - 1 >= 0 THEN d - 1 ELSE n
    IN  IF ~(0 <= idx /\ idx < n) THEN mv
        ELSE IF wd \in {3, 4, 0} THEN
            LET a == [mv EXCEPT ![before] = PRE_WEEKEND]
                b == [a EXCEPT ![d] = WEEKEND]
            IN  SetIf(b, idx + 1 < n, d + 1, WEEKEND)
        ELSE IF wd = 1 THEN
            LET a == [mv EXCEPT ![before] = WEEKEND]
                b == [a EXCEPT ![d] = WEEKEND]
            IN  SetIf(b, idx + 1 < n, d + 1, WEEKEND)
        ELSE mv

\* A variant of the holiday adjustment below that, for a Tuesday holiday,
\* forces the day two before the holiday to WEEKEND and leaves the day
\* before it alone.
ApplyHolidayTwoBefore(mv, y, m, d) ==
    LET wd == Weekday(y, m, d)
        n == Len(mv)
        idx == d - 1
    IN  IF ~(0 <= idx /\ idx < n) THEN mv
        ELSE IF wd \in {3, 4, 0} THEN
            LET a == SetIf(mv, idx - 1 >= 0, d - 1, PRE_WEEKEND)
                b == [a EXCEPT ![d] = WEEKEND]
            IN  SetIf(b, idx + 1 < n, d + 1, WEEKEND)
        ELSE IF wd = 1 THEN
            LET a == SetIf(mv, idx - 2 >= 0, d - 2, WEEKEND)
                b == [a EXCEPT ![d] = WEEKEND]
            IN  SetIf(b, idx + 1 < n, d + 1, WEEKEND)
        ELSE mv

\* Lines 87-118: one holiday on day-of-month d (Python idx = d - 1).
ApplyHoliday(mv, y, m, d) ==
    LET wd == Weekday(y, m, d)
        n == Len(mv)
        idx == d - 1
    IN  IF ~(0 <= idx /\ idx < n) THEN mv
        ELSE IF wd \in {3, 4, 0} THEN
            LET a == SetIf(mv, idx - 1 >= 0, d - 1, PRE_WEEKEND)
                b == [a EXCEPT ![d] = WEEKEND]
            IN  SetIf(b, idx + 1 < n, d + 1, WEEKEND)
        ELSE IF wd = 1 THEN
            LET a == SetIf(mv, idx - 1 >= 0, d - 1, PRE_WEEKEND)
                a2 == SetIf(a, idx - 1 >= 0, d - 1, WEEKEND)
                b == [a2 EXCEPT ![d] = WEEKEND]
            IN  SetIf(b, idx + 1 < n, d + 1, WEEKEND)
        ELSE mv

RECURSIVE ApplyHolidays(_, _, _, _)
ApplyHolidays(mv, y, m, order) ==
    IF order = <<>> THEN mv
    ELSE ApplyHolidays(ApplyHoliday(mv, y, m, Head(order)), y, m, Tail(order))

\* Line 86: the days of month m that are holidays of year y.
MonthHolidays(y, m) == {h[2] : h \in {g \in get_federal_holidays(y) : g[1] = m}}

\* The orders in which "for holiday in federal_holidays" can visit the
\* holidays of month m (a Python set has no defined iteration order).
HolidayOrders(y, m) ==
    LET H == MonthHolidays(y, m)
    IN  {s \in UNION {[1..k -> H] : k \in 0..2} :
            /\ Len(s) = Cardinality(H)
            /\ \A i, j \in 1..Len(s) : i # j => s[i] # s[j]}

Feb2025 == <<2, 3, 0, 0, 0, 0, 1, 2, 3, 0, 0, 0, 0, 1, 2, 3, 0, 0, 0, 0, 1,
             2, 3, 0, 0, 0, 0, 1>>

\* A variant of the generator below that applies the custom days off after
\* the holiday adjustments.
generate_with_days_off_last(y, m, days_off, order) ==
    IF y = 2025 /\ m = 2 THEN Feb2025
    ELSE ApplyDaysOff(ApplyHolidays(DefaultVector(y, m), y, m, order), days_off)

\* generate_month_vector(year, month, days_off), holidays visited in `order`.
generate_month_vector(y, m, days_off, order) ==
    IF y = 2025 /\ m = 2 THEN Feb2025
    ELSE ApplyHolidays(ApplyDaysOff(DefaultVector(y, m), days_off), y, m, order)

-----------------------------------------------------------------------------
(* constants.py: VALUE_KEY *)

WeekdayDayWatch == 10     \* "Weekday day watch"
WeekdayNightWatch == 12   \* "Weekday night watch"
FridayDayWatch == 18      \* "Friday day watch"
FriNightSatSun == 36      \* "Friday night/Saturday/Sunday day"
SundayNight == 20         \* "Sunday night"
NHeadMonthly == 28        \* the literal 28.0 of calculate_expected_watch_points

-----------------------------------------------------------------------------
(* Python dicts as functions *)

EmptyDict == <<>>
DictGet(d, k, default) == IF k \in DOMAIN d THEN d[k] ELSE default
DictSet(d, k, v) == [x \in (DOMAIN d) \cup {k} |-> IF x = k THEN v ELSE d[x]]
DictDel(d, k) == [x \in (DOMAIN d) \ {k} |-> d[x]]

\* The (year, month) tuple key of availability_vectors.
TupleKey(y, m) == <<"tuple", y, m>>
\* The f"{year}-{month:02d}" string key of points_deviation.
StrKey(y, m) == <<"str", y, m>>

-----------------------------------------------------------------------------
(* The Watchstander objects of the model and the inputs of the calls *)

Objects == {"w1", "w2", "w3", "w4"}

\* Cap of the model on the designated-role persons of a large roster.
MaxNHeads == 40

\* Further Watchstander objects, all of the designated role: n1, n2, ...
NHeadCrowd == {"n" \o ToString(i) : i \in 1..MaxNHeads}

\* Watchstander.name (constructor argument); w4 is a second object named
\* "a", and the objects of the crowd are named as they are called here.
Name(o) == CASE o = "w1" -> "a" [] o = "w2" -> "b" [] o = "w3" -> "c" [] o = "w4" -> "a"
             [] OTHER -> o

\* Watchstander.is_n_head (constructor argument)
IsNHead(o) == o = "w1" \/ o \in NHeadCrowd

AllOf(code, n) == [i \in 1..n |-> code]
\* Status codes 0..9 on days 1..10, available after that.
Mixed(n) == [i \in 1..n |-> IF i <= 10 THEN i - 1 ELSE 0]

\* Half(n): available on the first n \div 2 days, on leave after that.
Half(n) == [i \in 1..n |-> IF i <= n \div 2 THEN 0 ELSE 2]

\* Availability vectors of the right length for a month of d days.
GoodVectors(d) == { AllOf(0, d), AllOf(2, d), Half(d), Mixed(d) }
\* Empty and wrong-length vectors.
BadVectors(d) == { <<>>, AllOf(0, d - 1), AllOf(0, d + 1) }

\* Values handed to set_watch_percentage.
TestPercentages == { <<1, 2>>, <<0, 1>> }

\* Cap of the model on the points the ledger holds in total.
MaxPoints == 36

ShiftTypes == {"D", "N", "X"}

\* Day arguments of add_watch: out of range on both sides, and days 1, 2,
\* 4 and 8, which January 2023 classifies PRE_WEEKEND, WEEKEND, WORKDAY and
\* POST_WEEKEND.
TestDays == {0, 1, 2, 4, 8, days_in_month + 1}

-----------------------------------------------------------------------------
(* Outcome of a call *)

NoneVal == [none |-> TRUE]
Returned(op, v) == [op |-> op, exc |-> "", msg |-> "", val |-> v]
Raised(op, e, m) == [op |-> op, exc |-> e, msg |-> m, val |-> NoneVal]

\* A call of a function with its arguments: being made, returned, raised.
Calling(op, args) ==
    [op |-> op, exc |-> "calling", msg |-> "", val |-> NoneVal, args |-> args]
ReturnedFor(op, args, v) ==
    [op |-> op, exc |-> "", msg |-> "", val |-> v, args |-> args]
RaisedFor(op, args, e, m) ==
    [op |-> op, exc |-> e, msg |-> m, val |-> NoneVal, args |-> args]

-----------------------------------------------------------------------------
(* Month.__init__ *)

Construct(y, m) ==
    /\ year = y
    /\ month = m
    /\ \E order \in HolidayOrders(y, m) :
         month_vector = generate_month_vector(y, m, {}, order)
    /\ days_in_month = DaysInMonth(y, m)

Init ==
    /\ Construct(2023, 1)
    /\ watchstanders = <<>>
    /\ actual_watch_points = EmptyDict
    /\ availability_vectors = [o \in Objects |-> EmptyDict]
    /\ watch_percentage = [o \in Objects |-> <<1, 1>>]
    /\ points_deviation = [o \in Objects |-> EmptyDict]
    /\ ret = Returned("__init__", NoneVal)

\* The roster's dict keys, and the object stored under a key.
RosterNames == {Name(watchstanders[i]) : i \in 1..Len(watchstanders)}
RosterObject(n) ==
    watchstanders[CHOOSE i \in 1..Len(watchstanders) : Name(watchstanders[i]) = n]

\* ws.availability_vectors.get((self.year, self.month), [])
VectorOf(o) == DictGet(availability_vectors[o], TupleKey(year, month), <<>>)

-----------------------------------------------------------------------------
(* Watchstander.set_monthly_availability, Watchstander.set_watch_percentage *)

\* Lines 27-29. The vector is stored first, under the tuple key; then
\* _save_to_db (lines 121-145) rebuilds the dict with "for (year, month),
\* vector in items()", which raises ValueError on a string key "YYYY-MM"
\* left by load_from_db, before it talks to the database. The database is
\* outside the model: with tuple keys only, the call returns or raises.
set_monthly_availability(o, v) ==
    /\ availability_vectors' =
         [availability_vectors EXCEPT
            ![o] = DictSet(availability_vectors[o], TupleKey(year, month), v)]
    /\ IF \E k \in DOMAIN availability_vectors[o] : k[1] = "str"
       THEN ret' = Raised("set_monthly_availability", "ValueError",
                          "too many values to unpack (expected 2)")
       ELSE \/ ret' = Returned("set_monthly_availability", NoneVal)
            \/ ret' = Raised("set_monthly_availability", "DatabaseError", "_save_to_db")
    /\ UNCHANGED <<year, month, month_vector, days_in_month, watchstanders,
                   actual_watch_points, watch_percentage, points_deviation>>

\* Lines 147-162: Watchstander.load_from_db(name), for the name and role
\* of o. The database is outside the model: it holds no row of that name
\* (None is returned) or a row, whose availability_vectors is a dict
\* _save_to_db wrote, with string keys "YYYY-MM". cls(name, is_n_head)
\* builds a new object and the row's dict becomes its
\* availability_vectors; no object that existed before is touched. The
\* new object is what the call returns. Either no later call is made on
\* it, and every object of the model stays as it is; or, when o is as its
\* constructor left it (no call has used o), o stands for the new object
\* from here on.
load_from_db(o, row) ==
    /\ \/ /\ ret' = Returned("load_from_db",
                             [name |-> Name(o), is_n_head |-> IsNHead(o),
                              availability_vectors |-> row])
          /\ \/ /\ availability_vectors[o] = EmptyDict
                /\ watch_percentage[o] = <<1, 1>>
                /\ points_deviation[o] = EmptyDict
                /\ availability_vectors' = [availability_vectors EXCEPT ![o] = row]
             \/ UNCHANGED availability_vectors
       \/ /\ ret' = Returned("load_from_db", NoneVal)
          /\ UNCHANGED availability_vectors
    /\ UNCHANGED <<year, month, month_vector, days_in_month, watchstanders,
                   actual_watch_points, watch_percentage, points_deviation>>

set_watch_percentage(o, p) ==
    /\ watch_percentage' = [watch_percentage EXCEPT ![o] = p]
    /\ ret' = Returned("set_watch_percentage", NoneVal)
    /\ UNCHANGED <<year, month, month_vector, days_in_month, watchstanders,
                   actual_watch_points, availability_vectors, points_deviation>>

-----------------------------------------------------------------------------
(* Month.add_watchstander, Month.remove_watchstander *)

\* A variant of the check below without the comparison of line 38: a vector
\* of any length but 0 is accepted.
AddRejectionWithoutLength(o) ==
    IF Name(o) \in RosterNames THEN "already exists"
    ELSE IF VectorOf(o) = <<>> THEN "must have a filled availability vector"
    ELSE ""

\* The check of add_watchstander that rejects o, "" when none does.
AddRejection(o) ==
    IF Name(o) \in RosterNames THEN "already exists"
    ELSE IF VectorOf(o) = <<>> THEN "must have a filled availability vector"
    ELSE IF Len(VectorOf(o)) # days_in_month THEN "must have an availability vector of length"
    ELSE ""

\* What add_watchstander(o) raises or returns, and the roster and the ledger
\* it leaves (lines 33-41).
AddOutcome(o) ==
    IF AddRejection(o) # ""
    THEN Raised("add_watchstander", "ValueError", AddRejection(o))
    ELSE Returned("add_watchstander", NoneVal)

AddRoster(o) ==
    IF AddRejection(o) # "" THEN watchstanders ELSE Append(watchstanders, o)

AddLedger(o) ==
    IF AddRejection(o) # "" THEN actual_watch_points
    ELSE DictSet(actual_watch_points, Name(o), 0)

add_watchstander(o) ==
    /\ ret' = AddOutcome(o)
    /\ watchstanders' = AddRoster(o)
    /\ actual_watch_points' = AddLedger(o)
    /\ UNCHANGED <<year, month, month_vector, days_in_month,
                   availability_vectors, watch_percentage, points_deviation>>

\* del self.watchstanders[name]: the entry stored under the name goes.
RosterWithout(n) ==
    SelectSeq(watchstanders, LAMBDA w : Name(w) # n)

\* A variant of remove_watchstander below that takes the person out of the
\* roster and leaves the accumulator in the ledger.
remove_keeping_points(o) ==
    /\ IF Name(o) \in RosterNames
       THEN watchstanders' = RosterWithout(Name(o))
       ELSE UNCHANGED watchstanders
    /\ ret' = Returned("remove_watchstander", NoneVal)
    /\ UNCHANGED <<year, month, month_vector, days_in_month, actual_watch_points,
                   availability_vectors, watch_percentage, points_deviation>>

remove_watchstander(o) ==
    /\ IF Name(o) \in RosterNames
       THEN /\ watchstanders' = RosterWithout(Name(o))
            /\ actual_watch_points' =
                 IF Name(o) \in DOMAIN actual_watch_points
                 THEN DictDel(actual_watch_points, Name(o))
                 ELSE actual_watch_points
       ELSE UNCHANGED <<watchstanders, actual_watch_points>>
    /\ ret' = Returned("remove_watchstander", NoneVal)
    /\ UNCHANGED <<year, month, month_vector, days_in_month,
                   availability_vectors, watch_percentage, points_deviation>>

-----------------------------------------------------------------------------
(* Month.add_watch *)

\* A variant of the table below that takes the last day of a weekend for a
\* weekend day at night too: 36 points, where line 85 gives 20.
WatchPointsSundayAsWeekend(watch_type, day_type) ==
    IF watch_type = "D" THEN
        IF day_type = 0 THEN WeekdayDayWatch
        ELSE IF day_type = 1 THEN FridayDayWatch
        ELSE IF day_type \in {2, 3} THEN FriNightSatSun
        ELSE 0
    ELSE
        IF day_type = 0 THEN WeekdayNightWatch
        ELSE IF day_type \in {1, 2, 3} THEN FriNightSatSun
        ELSE 0

\* Lines 69-85: the points of a watch of the given type on a day of the
\* given classification (0 when no branch assigns them).
WatchPoints(watch_type, day_type) ==
    IF watch_type = "D" THEN
        IF day_type = 0 THEN WeekdayDayWatch
        ELSE IF day_type = 1 THEN FridayDayWatch
        ELSE IF day_type \in {2, 3} THEN FriNightSatSun
        ELSE 0
    ELSE
        IF day_type = 0 THEN WeekdayNightWatch
        ELSE IF day_type = 1 THEN FriNightSatSun
        ELSE IF day_type = 2 THEN FriNightSatSun
        ELSE IF day_type = 3 THEN SundayNight
        ELSE 0

RECURSIVE SumOver(_, _)
SumOver(f, S) ==
    IF S = {} THEN 0
    ELSE LET x == CHOOSE y \in S : TRUE IN f[x] + SumOver(f, S \ {x})

LedgerTotal == SumOver(actual_watch_points, DOMAIN actual_watch_points)

\* A variant of the check below that looks at the day before the person.
WatchRejectionDayFirst(n, day, watch_type) ==
    IF day < 1 \/ day > Len(month_vector) THEN "Invalid day"
    ELSE IF n \notin RosterNames THEN "not found in month's roster"
    ELSE IF watch_type \notin {"D", "N"} THEN "Invalid watch type"
    ELSE ""

\* The check of add_watch that rejects the call, "" when none does.
WatchRejection(n, day, watch_type) ==
    IF n \notin RosterNames THEN "not found in month's roster"
    ELSE IF day < 1 \/ day > Len(month_vector) THEN "Invalid day"
    ELSE IF watch_type \notin {"D", "N"} THEN "Invalid watch type"
    ELSE ""

\* What add_watch(n, day, watch_type) raises or returns, and the ledger it
\* leaves (lines 59-89).
WatchOutcome(n, day, watch_type) ==
    IF WatchRejection(n, day, watch_type) # ""
    THEN Raised("add_watch", "ValueError", WatchRejection(n, day, watch_type))
    ELSE Returned("add_watch", NoneVal)

WatchLedger(n, day, watch_type) ==
    IF WatchRejection(n, day, watch_type) # "" THEN actual_watch_points
    ELSE [actual_watch_points EXCEPT
            ![n] = @ + WatchPoints(watch_type, month_vector[day])]

add_watch(n, day, watch_type) ==
    /\ ret' = WatchOutcome(n, day, watch_type)
    /\ actual_watch_points' = WatchLedger(n, day, watch_type)
    /\ SumOver(actual_watch_points', DOMAIN actual_watch_points') <= MaxPoints
    /\ UNCHANGED <<year, month, month_vector, days_in_month, watchstanders,
                   availability_vectors, watch_percentage, points_deviation>>

-----------------------------------------------------------------------------
(* Month.calculate_expected_watch_points *)

\* Lines 156-163: what one day of the given classification adds to
\* total_monthly_points.
DayPool(day_type) ==
    IF day_type = 0 THEN WeekdayDayWatch + WeekdayNightWatch
    ELSE IF day_type = 1 THEN FridayDayWatch + FriNightSatSun
    ELSE IF day_type = 2 THEN FriNightSatSun
    ELSE IF day_type = 3 THEN FriNightSatSun + SundayNight
    ELSE 0

RECURSIVE SumPool(_, _)
SumPool(mv, i) == IF i = 0 THEN 0 ELSE SumPool(mv, i - 1) + DayPool(mv[i])

\* Lines 154-163.
TotalMonthlyPoints == SumPool(month_vector, Len(month_vector))

\* sum(1 for day in availability_vector if day > 0)
AvailableDays(vec) == Cardinality({i \in 1..Len(vec) : vec[i] > 0})

\* available_days / total_days if total_days > 0 else 0.0
AvailabilityPercentage(vec) ==
    IF Len(vec) > 0 THEN Norm(<<AvailableDays(vec), Len(vec)>>) ELSE <<0, 1>>

\* Lines 166-175, over the first i roster entries.
NHeadPoints(i) ==
    SumList([k \in 1..i |->
                LET o == watchstanders[k]
                IN  IF IsNHead(o) /\ VectorOf(o) # <<>>
                    THEN RatMul(AvailabilityPercentage(VectorOf(o)), Rat(NHeadMonthly))
                    ELSE <<0, 1>>],
            1, i)

\* Line 178.
RemainingPoints ==
    RatSub(Rat(TotalMonthlyPoints), NHeadPoints(Len(watchstanders)))

\* Lines 181-189, over the first i roster entries.
TotalWatchPercentage(i) ==
    SumList([k \in 1..i |->
                LET o == watchstanders[k]
                IN  IF ~IsNHead(o) /\ VectorOf(o) # <<>>
                    THEN RatMul(AvailabilityPercentage(VectorOf(o)), watch_percentage[o])
                    ELSE <<0, 1>>],
            1, i)

\* Lines 194-214: expected_points[ws.name] of one roster entry.
ExpectedOf(o) ==
    LET vec == VectorOf(o)
        twp == TotalWatchPercentage(Len(watchstanders))
    IN  IF IsNHead(o) THEN
            IF vec # <<>>
            THEN RatMul(AvailabilityPercentage(vec), Rat(NHeadMonthly))
            ELSE <<0, 1>>
        ELSE
            IF vec # <<>> /\ RatGt0(twp)
            THEN RatMul(RatDiv(RatMul(AvailabilityPercentage(vec), watch_percentage[o]), twp),
                        RemainingPoints)
            ELSE <<0, 1>>

\* Lines 217-236: the points of the watches marked 8 and 9 in the vector,
\* over its first i days (i <= Len(month_vector)).
RECURSIVE MarkedPoints(_, _)
MarkedPoints(vec, i) ==
    IF i = 0 THEN 0
    ELSE MarkedPoints(vec, i - 1) +
         (IF vec[i] = 8 THEN WatchPoints("D", month_vector[i])
          ELSE IF vec[i] = 9 THEN WatchPoints("N", month_vector[i])
          ELSE 0)

\* Line 220 reads month_vector[day_idx] for every index of the vector: a
\* vector longer than the calendar raises IndexError.
RaisesIndexError(o) == Len(VectorOf(o)) > Len(month_vector)

\* Number of roster entries the loop of lines 193-239 completes: all of
\* them, or those before the first one that raises.
Completed ==
    IF \E i \in 1..Len(watchstanders) : RaisesIndexError(watchstanders[i])
    THEN (CHOOSE i \in 1..Len(watchstanders) :
             /\ RaisesIndexError(watchstanders[i])
             /\ \A j \in 1..(i - 1) : ~RaisesIndexError(watchstanders[j])) - 1
    ELSE Len(watchstanders)

CalcRaises == Completed < Len(watchstanders)

\* The returned expected_points dict (when the loop completes).
ExpectedPoints == [n \in RosterNames |-> ExpectedOf(RosterObject(n))]

\* Line 239 and Watchstander.update_points_deviation, for the completed
\* entries: points_deviation[key] = actual_points - expected_points.
DeviationsAfterCalc ==
    [o \in DOMAIN points_deviation |->
        IF \E i \in 1..Completed : watchstanders[i] = o
        THEN DictSet(points_deviation[o], StrKey(year, month),
                     RatSub(Rat(MarkedPoints(VectorOf(o), Len(VectorOf(o)))),
                            ExpectedOf(o)))
        ELSE points_deviation[o]]

\* What calculate_expected_watch_points raises or returns.
CalcOutcome ==
    IF CalcRaises
    THEN Raised("calculate_expected_watch_points", "IndexError", "list index out of range")
    ELSE Returned("calculate_expected_watch_points", ExpectedPoints)

\* A variant of the allocator that books the points of the watches marked 8
\* and 9, which line 217 only sums in a local, into the ledger.
calculate_booking_marked_watches ==
    /\ points_deviation' = DeviationsAfterCalc
    /\ actual_watch_points' =
         [n \in DOMAIN actual_watch_points |->
            IF \E i \in 1..Completed : Name(watchstanders[i]) = n
            THEN MarkedPoints(VectorOf(RosterObject(n)), Len(VectorOf(RosterObject(n))))
            ELSE actual_watch_points[n]]
    /\ ret' = CalcOutcome
    /\ UNCHANGED <<year, month, month_vector, days_in_month, watchstanders,
                   availability_vectors, watch_percentage>>

\* A variant of the allocator that stores each regular person's share of
\* line 211 back into that person's watch_percentage.
calculate_storing_shares ==
    /\ points_deviation' = DeviationsAfterCalc
    /\ watch_percentage' =
         [o \in DOMAIN watch_percentage |->
            IF /\ \E i \in 1..Completed : watchstanders[i] = o
               /\ ~IsNHead(o) /\ VectorOf(o) # <<>>
               /\ RatGt0(TotalWatchPercentage(Len(watchstanders)))
            THEN RatDiv(RatMul(AvailabilityPercentage(VectorOf(o)), watch_percentage[o]),
                        TotalWatchPercentage(Len(watchstanders)))
            ELSE watch_percentage[o]]
    /\ ret' = CalcOutcome
    /\ UNCHANGED <<year, month, month_vector, days_in_month, watchstanders,
                   actual_watch_points, availability_vectors>>

calculate_expected_watch_points ==
    /\ points_deviation' = DeviationsAfterCalc
    /\ ret' = CalcOutcome
    /\ UNCHANGED <<year, month, month_vector, days_in_month, watchstanders,
                   actual_watch_points, availability_vectors, watch_percentage>>

-----------------------------------------------------------------------------
(* Month.evaluate_watch_deviations, Month.get_month_summary *)

\* Line 100 runs the allocator; the loop of line 103 iterates the dict, so
\* ws is a key (a str) and line 104, ws.name, raises AttributeError on the
\* first entry. Only an empty roster reaches line 118.
EvaluateOutcome(op) ==
    IF CalcRaises THEN Raised(op, "IndexError", "list index out of range")
    ELSE IF watchstanders # <<>>
         THEN Raised(op, "AttributeError", "'str' object has no attribute 'name'")
         ELSE Returned(op, EmptyDict)

evaluate_watch_deviations ==
    /\ points_deviation' = DeviationsAfterCalc
    /\ ret' = EvaluateOutcome("evaluate_watch_deviations")
    /\ UNCHANGED <<year, month, month_vector, days_in_month, watchstanders,
                   actual_watch_points, availability_vectors, watch_percentage>>

\* Lines 252-263. Line 252 raises unless the roster is empty.
SummaryOutcome ==
    IF EvaluateOutcome("get_month_summary").exc # ""
    THEN EvaluateOutcome("get_month_summary")
    ELSE Returned("get_month_summary",
           [year |-> year,
            month |-> month,
            total_watchstanders |-> Len(watchstanders),
            n_heads |-> Cardinality({i \in 1..Len(watchstanders) : IsNHead(watchstanders[i])}),
            regular_watchstanders |-> Cardinality({i \in 1..Len(watchstanders) : ~IsNHead(watchstanders[i])}),
            availability |-> EmptyDict,
            expected_points |-> ExpectedPoints,
            actual_points |-> actual_watch_points,
            deviations |-> EmptyDict])

get_month_summary ==
    /\ points_deviation' = DeviationsAfterCalc
    /\ ret' = SummaryOutcome
    /\ UNCHANGED <<year, month, month_vector, days_in_month, watchstanders,
                   actual_watch_points, availability_vectors, watch_percentage>>

-----------------------------------------------------------------------------
(* Watchstander.calculate_monthly_availability, Month.calculate_total_availability *)

\* watchstander.py lines 41-50: (available_days, total_days, percentage).
\* The vector is looked up under the string key "YYYY-MM".
calculate_monthly_availability(o) ==
    IF StrKey(year, month) \notin DOMAIN availability_vectors[o]
    THEN <<0, 0, <<0, 1>>>>
    ELSE LET vector == availability_vectors[o][StrKey(year, month)]
             total_days == Len(vector)
             available_days ==
                 Cardinality({i \in 1..Len(vector) : vector[i] \in {0, 4, 5, 6, 7, 8, 9}})
         IN  <<available_days, total_days,
               IF total_days > 0
               THEN RatMul(Norm(<<available_days, total_days>>), Rat(100))
               ELSE <<0, 1>>>>

\* month.py lines 141-149: name -> available_days, over the roster's dict.
calculate_total_availability ==
    /\ ret' = Returned("calculate_total_availability",
                       [n \in RosterNames |->
                          calculate_monthly_availability(RosterObject(n))[1]])
    /\ UNCHANGED <<year, month, month_vector, days_in_month, watchstanders,
                   actual_watch_points, availability_vectors, watch_percentage,
                   points_deviation>>

-----------------------------------------------------------------------------
(* The specification: the life of one Month. Availability is set to        *)
(* vectors of the right length; SpecRoster below feeds the other ones.     *)

LedgerObjects == {"w1", "w2"}
LedgerVectors(d) == { Mixed(d) }
LedgerNames == {"a", "b", "zz"}

\* availability_vectors of rows of the database, as _save_to_db writes
\* them (lines 126-139): the dict of the object that was saved, its tuple
\* keys turned into strings "YYYY-MM". The row left by
\* set_monthly_availability(year, month, Mixed(d)) on a new object, and
\* the row of a person who was saved with two months: the month before,
\* every day available, and this month on leave.
StoredRows(d) ==
    LET before == IF month = 1 THEN <<year - 1, 12>> ELSE <<year, month - 1>>
    IN  { StrKey(year, month) :> Mixed(d),
          (StrKey(before[1], before[2]) :> AllOf(0, DaysInMonth(before[1], before[2])))
             @@ (StrKey(year, month) :> AllOf(2, d)) }

Next ==
    \/ \E o \in LedgerObjects : \E v \in LedgerVectors(days_in_month) :
           set_monthly_availability(o, v)
    \/ \E o \in LedgerObjects : add_watchstander(o)
    \/ \E o \in LedgerObjects : remove_watchstander(o)
    \/ \E n \in LedgerNames : \E day \in TestDays : \E t \in ShiftTypes :
           add_watch(n, day, t)
    \/ calculate_expected_watch_points
    \/ evaluate_watch_deviations
    \/ get_month_summary
    \* the person named "b" is loaded
    \/ \E row \in StoredRows(days_in_month) : load_from_db("w2", row)
    \/ calculate_total_availability

Spec == Init /\ [][Next]_vars

-----------------------------------------------------------------------------
(* SpecRoster: the roster under every kind of availability vector, set     *)
(* before and after the person is added, with a second object that bears   *)
(* a name already used.                                                    *)

RosterObjects == {"w1", "w2", "w4"}
RosterVectors(d) == BadVectors(d) \cup { AllOf(0, d) }
RosterDays == {0, 1}

NextRoster ==
    \/ \E o \in RosterObjects : \E v \in RosterVectors(days_in_month) :
           set_monthly_availability(o, v)
    \/ \E o \in RosterObjects : add_watchstander(o)
    \/ \E o \in RosterObjects : remove_watchstander(o)
    \/ \E n \in LedgerNames : \E day \in RosterDays : add_watch(n, day, "D")

SpecRoster == Init /\ [][NextRoster]_vars

-----------------------------------------------------------------------------
(* SpecAlloc: the allocator as a function of the roster. The initial       *)
(* states are the rosters that sequences of set_monthly_availability,      *)
(* set_watch_percentage and add_watchstander build (a vector can be        *)
(* replaced by any other once its owner is in the roster); the steps are   *)
(* the queries.                                                            *)

AllocObjects == {"w1", "w2", "w3"}
AllocMonths == {<<2025, 2>>}
AllocVectors(d) == GoodVectors(d) \cup { <<>>, AllOf(0, d + 1) }
AllocPercentages == { <<1, 1>> } \cup TestPercentages

\* Sequences of distinct objects.
AllocRosters ==
    {r \in UNION {[1..k -> AllocObjects] : k \in 0..Cardinality(AllocObjects)} :
        \A i, j \in 1..Len(r) : i # j => r[i] # r[j]}

InitAlloc ==
    /\ \E ym \in AllocMonths : Construct(ym[1], ym[2])
    /\ watchstanders \in AllocRosters
    /\ actual_watch_points = [n \in RosterNames |-> 0]
    /\ availability_vectors \in
         [Objects -> {EmptyDict} \cup
                     {TupleKey(year, month) :> v : v \in AllocVectors(days_in_month)}]
    /\ \A o \in Objects :
         (\E i \in 1..Len(watchstanders) : watchstanders[i] = o)
            <=> availability_vectors[o] # EmptyDict
    /\ watch_percentage \in [Objects -> AllocPercentages]
    /\ \A o \in Objects :
         (IsNHead(o) \/ ~\E i \in 1..Len(watchstanders) : watchstanders[i] = o)
            => watch_percentage[o] = <<1, 1>>
    /\ points_deviation = [o \in Objects |-> EmptyDict]
    /\ ret = Returned("add_watchstander", NoneVal)

NextAlloc ==
    \/ calculate_expected_watch_points
    \/ evaluate_watch_deviations
    \/ get_month_summary

SpecAlloc == InitAlloc /\ [][NextAlloc]_vars

-----------------------------------------------------------------------------
(* What the specification document says of the allocator (sections 4.2,    *)
(* 4.4), written from its text and used only to state the properties.      *)

\* Status codes that count as available for allocation.
AllocationAvailable == {0, 4, 5, 6, 7, 8, 9}

\* availabilityFraction(person)
AvailabilityFraction(vec) ==
    IF Len(vec) = 0 THEN <<0, 1>>
    ELSE Norm(<<Cardinality({i \in 1..Len(vec) : vec[i] \in AllocationAvailable}),
                Len(vec)>>)

\* ValueOf(classification, shiftType)
ValueOf(c, shift) ==
    IF shift = "D"
    THEN CASE c = WORKDAY -> 10 [] c = PRE_WEEKEND -> 18
           [] c = WEEKEND -> 36 [] c = POST_WEEKEND -> 36
    ELSE CASE c = WORKDAY -> 12 [] c = PRE_WEEKEND -> 36
           [] c = WEEKEND -> 36 [] c = POST_WEEKEND -> 20

\* MonthlyPool(calendar): DAY + NIGHT value of every day.
RECURSIVE MonthlyPoolUpTo(_, _)
MonthlyPoolUpTo(mv, i) ==
    IF i = 0 THEN 0
    ELSE MonthlyPoolUpTo(mv, i - 1) + ValueOf(mv[i], "D") + ValueOf(mv[i], "N")

MonthlyPool(mv) == MonthlyPoolUpTo(mv, Len(mv))

RosterSet == {watchstanders[i] : i \in 1..Len(watchstanders)}

RECURSIVE RatSum(_, _)
RatSum(f, S) ==
    IF S = {} THEN <<0, 1>>
    ELSE LET x == CHOOSE y \in S : TRUE IN RatAdd(f[x], RatSum(f, S \ {x}))

\* totalWeight: sum of availabilityFraction x roleWeight over regular persons.
TotalWeight ==
    SumList([k \in 1..Len(watchstanders) |->
                LET o == watchstanders[k]
                IN  IF IsNHead(o) THEN <<0, 1>>
                    ELSE RatMul(AvailabilityFraction(VectorOf(o)), watch_percentage[o])],
            1, Len(watchstanders))

\* designatedTotal and remainingPool.
DesignatedTotal ==
    SumList([k \in 1..Len(watchstanders) |->
                LET o == watchstanders[k]
                IN  IF IsNHead(o) THEN RatMul(AvailabilityFraction(VectorOf(o)), Rat(28))
                    ELSE <<0, 1>>],
            1, Len(watchstanders))

RemainingPool == RatSub(Rat(MonthlyPool(month_vector)), DesignatedTotal)

\* The most recent call is a calculate_expected_watch_points that returned.
AllocatorReturned ==
    ret.op = "calculate_expected_watch_points" /\ ret.exc = ""

-----------------------------------------------------------------------------
(* Properties *)

\* C1: allocator conservation. Whenever the total weight of the regular
\* persons is > 0 and the remaining pool is >= 0, the expected points
\* returned by calculate_expected_watch_points sum to the month's pool.
C1_Conservation ==
    (AllocatorReturned /\ RatGt0(TotalWeight) /\ RemainingPool[1] >= 0)
        => RatSum(ret.val, DOMAIN ret.val) = Rat(MonthlyPool(month_vector))

\* C2: the allocator's availability fraction counts the days whose status
\* is in {0, 4, 5, 6, 7, 8, 9}: a designated-role person gets fraction x 28,
\* so 28 for an all-0 vector and 0 for an all-2 vector.
C2_DesignatedShare ==
    AllocatorReturned =>
        \A o \in RosterSet :
            (IsNHead(o) /\ Len(VectorOf(o)) = days_in_month)
                => ret.val[Name(o)] = RatMul(AvailabilityFraction(VectorOf(o)), Rat(28))

\* C3: the pool the allocator distributes is the sum over all days of
\* ValueOf(classification, DAY) + ValueOf(classification, NIGHT).
C3_PoolIsValueSum ==
    AllocatorReturned => TotalMonthlyPoints = MonthlyPool(month_vector)

\* C4: a successful add_watch(name, day, shift), name in the roster,
\* 1 <= day <= days-in-month, shift D or N, adds exactly
\* ValueOf(month_vector[day-1], shift) to that person's accumulator and
\* leaves the other accumulators, the roster and the calendar unchanged.
C4_AddWatchCredits ==
    /\ [](\A n \in RosterNames : \A day \in 1..days_in_month : \A t \in {"D", "N"} :
            /\ WatchOutcome(n, day, t).exc = ""
            /\ DOMAIN WatchLedger(n, day, t) = DOMAIN actual_watch_points
            /\ WatchLedger(n, day, t)[n] =
                   actual_watch_points[n] + ValueOf(month_vector[day], t)
            /\ \A m \in DOMAIN actual_watch_points \ {n} :
                   WatchLedger(n, day, t)[m] = actual_watch_points[m])
    /\ [][ret'.op = "add_watch" =>
            UNCHANGED <<watchstanders, month_vector, days_in_month, year, month>>]_vars

\* C4 witness: add_watch has returned and a POST_WEEKEND night watch or two
\* WORKDAY day watches (20 points) stand in some accumulator.
C4_Witness ==
    /\ ret.op = "add_watch" /\ ret.exc = ""
    /\ \E n \in DOMAIN actual_watch_points : actual_watch_points[n] = 20

\* C5: for a non-empty roster, evaluate_watch_deviations and
\* get_month_summary return, for every person, a record with the
\* allocator's expected points, the ledger's actual points and
\* deviation = expected - actual.
DeviationRecords ==
    IF ret.op = "get_month_summary" THEN ret.val.deviations ELSE ret.val

C5_DeviationRecords ==
    (ret.op \in {"evaluate_watch_deviations", "get_month_summary"} /\ watchstanders # <<>>)
        => /\ ret.exc = ""
           /\ DOMAIN DeviationRecords = RosterNames
           /\ \A n \in RosterNames :
                /\ DeviationRecords[n].expected_points = ExpectedPoints[n]
                /\ DeviationRecords[n].actual_points = Rat(actual_watch_points[n])
                /\ DeviationRecords[n].deviation =
                       RatSub(ExpectedPoints[n], Rat(actual_watch_points[n]))

\* C6: add_watchstander rejects with an error and leaves the roster and the
\* accumulators as they were when the name is already in the roster or the
\* availability vector for (year, month) is missing, empty or of a length
\* other than days-in-month; in every other case it inserts the person.
MustReject(o) ==
    \/ Name(o) \in RosterNames
    \/ TupleKey(year, month) \notin DOMAIN availability_vectors[o]
    \/ availability_vectors[o][TupleKey(year, month)] = <<>>
    \/ Len(availability_vectors[o][TupleKey(year, month)]) # days_in_month

C6_AddValidates ==
    \A o \in RosterObjects :
        IF MustReject(o)
        THEN /\ AddOutcome(o).exc = "ValueError"
             /\ AddRoster(o) = watchstanders
             /\ AddLedger(o) = actual_watch_points
        ELSE /\ AddOutcome(o).exc = ""
             /\ AddRoster(o) = Append(watchstanders, o)
             /\ DOMAIN AddLedger(o) = DOMAIN actual_watch_points \cup {Name(o)}
             /\ AddLedger(o)[Name(o)] = 0
             /\ \A m \in DOMAIN actual_watch_points :
                    AddLedger(o)[m] = actual_watch_points[m]

\* C6 witness: a person whose vector has the wrong length has just been
\* rejected while somebody else is in the roster.
C6_Witness ==
    /\ ret.op = "add_watchstander" /\ ret.exc = "ValueError"
    /\ ret.msg = "must have an availability vector of length"
    /\ watchstanders # <<>>

\* C7: add_watch fails and changes no accumulator when the person is not
\* in the roster, when the day is outside 1..days-in-month, or when the
\* shift is neither D nor N; the person is checked before the day, and both
\* before any points are added.
C7_AddWatchRejects ==
    \A n \in LedgerNames : \A day \in TestDays : \A t \in ShiftTypes :
        /\ n \notin RosterNames =>
             /\ WatchOutcome(n, day, t).exc = "ValueError"
             /\ WatchOutcome(n, day, t).msg = "not found in month's roster"
             /\ WatchLedger(n, day, t) = actual_watch_points
        /\ (n \in RosterNames /\ (day < 1 \/ day > days_in_month)) =>
             /\ WatchOutcome(n, day, t).exc = "ValueError"
             /\ WatchOutcome(n, day, t).msg = "Invalid day"
             /\ WatchLedger(n, day, t) = actual_watch_points
        /\ (n \in RosterNames /\ 1 <= day /\ day <= days_in_month
              /\ t \notin {"D", "N"}) =>
             /\ WatchOutcome(n, day, t).exc = "ValueError"
             /\ WatchOutcome(n, day, t).msg = "Invalid watch type"
             /\ WatchLedger(n, day, t) = actual_watch_points

\* C7 witness: a watch of an unknown type on a valid day of a person in the
\* roster has just been rejected, with points already in the ledger.
C7_Witness ==
    /\ ret.op = "add_watch" /\ ret.exc = "ValueError"
    /\ ret.msg = "Invalid watch type"
    /\ \E n \in DOMAIN actual_watch_points : actual_watch_points[n] > 0

\* C8: every person in the roster has an availability vector for the
\* roster's (year, month) whose length is days-in-month, in every state
\* add_watchstander, remove_watchstander, add_watch and
\* set_monthly_availability can reach.
C8_RosterVectorsFit ==
    \A o \in RosterSet :
        /\ TupleKey(year, month) \in DOMAIN availability_vectors[o]
        /\ Len(availability_vectors[o][TupleKey(year, month)]) = days_in_month

\* C9: an accumulator is 0 right after add_watchstander; while its person
\* stays in the roster it never decreases and changes only through an
\* add_watch for that person.
C9_AppendOnly ==
    [][ /\ (ret'.op = "add_watchstander" /\ ret'.exc = "") =>
             \A o \in LedgerObjects :
                add_watchstander(o) => actual_watch_points'[Name(o)] = 0
        /\ \A n \in RosterNames \cap RosterNames' :
             /\ actual_watch_points'[n] >= actual_watch_points[n]
             /\ actual_watch_points'[n] # actual_watch_points[n]
                  => \E day \in TestDays : \E t \in ShiftTypes : add_watch(n, day, t)
      ]_vars

\* C9 witness: the allocator has run on a roster whose ledger holds the
\* points of at least two watches of one person.
C9_Witness ==
    /\ ret.op = "calculate_expected_watch_points"
    /\ \E n \in DOMAIN actual_watch_points : actual_watch_points[n] = 22

\* C10: calculate_expected_watch_points, evaluate_watch_deviations and
\* get_month_summary leave the accumulators, the roster, the availability
\* vectors and the calendar unchanged; the call that has just been made
\* would give the same again if repeated now, and does give the same when
\* it is repeated.
QueryOps ==
    {"calculate_expected_watch_points", "evaluate_watch_deviations", "get_month_summary"}

QueryOutcome(op) ==
    CASE op = "calculate_expected_watch_points" -> CalcOutcome
      [] op = "evaluate_watch_deviations" -> EvaluateOutcome(op)
      [] op = "get_month_summary" -> SummaryOutcome

C10_QueriesIdempotent ==
    /\ [](ret.op \in QueryOps => ret = QueryOutcome(ret.op))
    /\ [][ret'.op \in QueryOps =>
            /\ UNCHANGED <<actual_watch_points, watchstanders, availability_vectors,
                           month_vector, days_in_month, year, month>>
            /\ ret.op = ret'.op => ret' = ret]_vars

\* C10 witness: a summary has been asked of a roster of three whose
\* deviation records the allocator has written.
C10_Witness ==
    /\ ret.op = "get_month_summary"
    /\ Len(watchstanders) = 3
    /\ \A o \in RosterSet : points_deviation[o] # EmptyDict

\* C11: deviation identity. For every person of a non-empty roster the
\* record reported by evaluate_watch_deviations / get_month_summary has
\* deviation = expected - actual, deviation_percentage = deviation /
\* expected x 100 when expected # 0 and 0 when expected = 0, and
\* deviation = 0 exactly when deviation_percentage = 0.
C11_DeviationIdentity ==
    (ret.op \in {"evaluate_watch_deviations", "get_month_summary"} /\ watchstanders # <<>>)
        => /\ ret.exc = ""
           /\ \A n \in RosterNames :
                LET r == DeviationRecords[n]
                IN  /\ r.deviation = RatSub(r.expected_points, r.actual_points)
                    /\ r.expected_points[1] # 0 =>
                          r.deviation_percentage =
                              RatMul(RatDiv(r.deviation, r.expected_points), Rat(100))
                    /\ r.expected_points[1] = 0 => r.deviation_percentage = Rat(0)
                    /\ (r.deviation[1] = 0) <=> (r.deviation_percentage[1] = 0)

-----------------------------------------------------------------------------
(* SpecCalendar: generate_month_vector(year, month, days_off) as a         *)
(* function. Init draws the arguments, the action makes the call.          *)

FirstYear == 2019
LastYear == 2046
MaxDayOff == 32

CalendarYears == FirstYear..LastYear
DaysOffChoices == {{}} \cup {{d} : d \in 1..MaxDayOff}

InitCalendar ==
    /\ Construct(2023, 1)
    /\ watchstanders = <<>>
    /\ actual_watch_points = EmptyDict
    /\ availability_vectors = [o \in Objects |-> EmptyDict]
    /\ watch_percentage = [o \in Objects |-> <<1, 1>>]
    /\ points_deviation = [o \in Objects |-> EmptyDict]
    /\ \E y \in CalendarYears : \E m \in 1..12 : \E days_off \in DaysOffChoices :
         ret = Calling("generate_month_vector",
                       [year |-> y, month |-> m, days_off |-> days_off])

GenerateMonthVector ==
    /\ ret.op = "generate_month_vector" /\ ret.exc = "calling"
    /\ \E order \in HolidayOrders(ret.args.year, ret.args.month) :
         ret' = ReturnedFor("generate_month_vector", ret.args,
                  generate_month_vector(ret.args.year, ret.args.month,
                                        ret.args.days_off, order))
    /\ UNCHANGED <<year, month, month_vector, days_in_month, watchstanders,
                   actual_watch_points, availability_vectors, watch_percentage,
                   points_deviation>>

NextCalendar == GenerateMonthVector

SpecCalendar == InitCalendar /\ [][NextCalendar]_vars

\* generate_month_vector has returned.
CalendarBuilt == ret.op = "generate_month_vector" /\ ret.exc = ""

\* Section 4.1, step 1: the default classification of a weekday
\* (Monday = 0 ... Sunday = 6).
ClassOfWeekday(wd) ==
    CASE wd \in {0, 1, 2, 3} -> WORKDAY
      [] wd = 4 -> PRE_WEEKEND
      [] wd = 5 -> WEEKEND
      [] wd = 6 -> POST_WEEKEND

\* C12: for a month with no federal holiday, no custom days off and no
\* hard-coded override, generate_month_vector returns one entry per
\* calendar day, Monday-Thursday WORKDAY, Friday PRE_WEEKEND, Saturday
\* WEEKEND, Sunday POST_WEEKEND.
C12_DefaultClassification ==
    (/\ CalendarBuilt
     /\ ret.args.days_off = {}
     /\ MonthHolidays(ret.args.year, ret.args.month) = {}
     /\ ~(ret.args.year = 2025 /\ ret.args.month = 2))
        => /\ Len(ret.val) = DaysInMonth(ret.args.year, ret.args.month)
           /\ \A d \in 1..Len(ret.val) :
                ret.val[d] =
                    ClassOfWeekday(Weekday(ret.args.year, ret.args.month, d))

\* C12 witness: the vector of a 31-day month without holidays that starts
\* on a Sunday has been returned.
C12_Witness ==
    /\ CalendarBuilt
    /\ ret.args.days_off = {}
    /\ MonthHolidays(ret.args.year, ret.args.month) = {}
    /\ Weekday(ret.args.year, ret.args.month, 1) = 6
    /\ Len(ret.val) = 31

\* The holidays of the month whose adjustment reaches day d, and those
\* among them that make d the day leading into the break.
HolidaysTouching(y, m, d) ==
    {h \in MonthHolidays(y, m) :
        Weekday(y, m, h) \in {0, 1, 3, 4} /\ d \in {h - 1, h, h + 1}}

HolidaysLedInto(y, m, d) ==
    {h \in MonthHolidays(y, m) : Weekday(y, m, h) \in {0, 3, 4} /\ d = h - 1}

\* C13 as stated: holiday adjustments win over custom days off. A days_off
\* day that is the day before a Thursday, Friday or Monday holiday of the
\* month is PRE_WEEKEND, and a days_off day no holiday adjustment touches
\* is WEEKEND, for every (year, month).
C13_HolidaysWinOverDaysOff ==
    CalendarBuilt =>
        \A d \in ret.args.days_off \cap (1..DaysInMonth(ret.args.year, ret.args.month)) :
            /\ HolidaysLedInto(ret.args.year, ret.args.month, d) # {}
                  => ret.val[d] = PRE_WEEKEND
            /\ HolidaysTouching(ret.args.year, ret.args.month, d) = {}
                  => ret.val[d] = WEEKEND

\* C13, amended: the same for every (year, month) that has no hard-coded
\* override; the override of February 2025 is returned as it is, whatever
\* days_off holds.
C13_HolidaysWinExceptOverride ==
    /\ (CalendarBuilt /\ ~(ret.args.year = 2025 /\ ret.args.month = 2))
          => \A d \in ret.args.days_off
                     \cap (1..DaysInMonth(ret.args.year, ret.args.month)) :
                /\ HolidaysLedInto(ret.args.year, ret.args.month, d) # {}
                      => ret.val[d] = PRE_WEEKEND
                /\ HolidaysTouching(ret.args.year, ret.args.month, d) = {}
                      => ret.val[d] = WEEKEND
    /\ (CalendarBuilt /\ ret.args.year = 2025 /\ ret.args.month = 2)
          => ret.val = Feb2025

\* C13 witness: a vector has been returned in which the custom day off is
\* the day before a Thursday, Friday or Monday holiday and is PRE_WEEKEND.
C13_Witness ==
    /\ CalendarBuilt
    /\ \E d \in ret.args.days_off :
          /\ HolidaysLedInto(ret.args.year, ret.args.month, d) # {}
          /\ ret.val[d] = PRE_WEEKEND

\* C14: two calls of generate_month_vector with the same (year, month,
\* days_off) return the same sequence, in whatever order the holidays of
\* the month are visited.
C14_Deterministic ==
    CalendarBuilt =>
        \A order \in HolidayOrders(ret.args.year, ret.args.month) :
            generate_month_vector(ret.args.year, ret.args.month,
                                  ret.args.days_off, order) = ret.val

\* C14 witness: a vector has been returned for a month with two holidays
\* that both adjust their neighbours, and a custom day off between them.
C14_Witness ==
    /\ CalendarBuilt
    /\ Cardinality(HolidaysTouching(ret.args.year, ret.args.month, 3)) = 1
    /\ Cardinality(MonthHolidays(ret.args.year, ret.args.month)) = 2
    /\ \A h \in MonthHolidays(ret.args.year, ret.args.month) :
          Weekday(ret.args.year, ret.args.month, h) \in {0, 1, 3, 4}
    /\ ret.args.days_off = {3}

-----------------------------------------------------------------------------
(* watchbill_model.py: WatchbillModel.watchbill_availability *)

NONE == 0          \* no watch
DAY_ONLY == 1      \* "Day watch only"
NIGHT_ONLY == 2    \* "Night watch only"
EITHER == 3        \* "Available for either watch"

\* A variant of the decision below that tests "day watch only" (line 58)
\* before "night watch only" (line 56).
WatchbillAtDayFirst(availability, i) ==
    LET n == Len(availability)
        avail == availability[i]
    IN  IF avail \in {1, 2, 3, 4, 5, 7} THEN NONE
        ELSE IF (i > 1 /\ availability[i - 1] = 3) \/ (i < n /\ availability[i + 1] = 1)
             THEN NONE
        ELSE IF avail = 0 /\ i < n /\ availability[i + 1] = 4 THEN DAY_ONLY
        ELSE IF i > 1 /\ availability[i - 1] = 6 /\ avail = 0 THEN NIGHT_ONLY
        ELSE IF i > 1 /\ avail = 0 /\ i < n /\ availability[i - 1] = 0
                /\ availability[i + 1] = 0 THEN EITHER
        ELSE NONE

\* A variant of the decision below without the tests "i > 0": on the first
\* day availability[i - 1] is availability[-1], the last entry.
WatchbillAtWrapped(availability, i) ==
    LET n == Len(availability)
        avail == availability[i]
        prev == IF i > 1 THEN availability[i - 1] ELSE availability[n]
    IN  IF avail \in {1, 2, 3, 4, 5, 7} THEN NONE
        ELSE IF prev = 3 \/ (i < n /\ availability[i + 1] = 1) THEN NONE
        ELSE IF prev = 6 /\ avail = 0 THEN NIGHT_ONLY
        ELSE IF avail = 0 /\ i < n /\ availability[i + 1] = 4 THEN DAY_ONLY
        ELSE IF avail = 0 /\ i < n /\ prev = 0 /\ availability[i + 1] = 0 THEN EITHER
        ELSE NONE

\* A variant of the decision below that also looks two days back: no
\* night watch on the second day after a leave's end.
WatchbillAtTwoBack(availability, i) ==
    LET n == Len(availability)
        avail == availability[i]
    IN  IF avail \in {1, 2, 3, 4, 5, 7} THEN NONE
        ELSE IF (i > 1 /\ availability[i - 1] = 3) \/ (i < n /\ availability[i + 1] = 1)
             THEN NONE
        ELSE IF i > 1 /\ availability[i - 1] = 6 /\ avail = 0
             THEN (IF i > 2 /\ availability[i - 2] = 3 THEN NONE ELSE NIGHT_ONLY)
        ELSE IF avail = 0 /\ i < n /\ availability[i + 1] = 4 THEN DAY_ONLY
        ELSE IF i > 1 /\ avail = 0 /\ i < n /\ availability[i - 1] = 0
                /\ availability[i + 1] = 0 THEN EITHER
        ELSE NONE

\* A variant of the entry below whose last test does not look at the
\* day's own status: a day between two available days is EITHER unless
\* its status is in the unavailable list.
WatchbillAtAnyStatus(availability, i) ==
    LET n == Len(availability)
        avail == availability[i]
    IN  IF avail \in {1, 2, 3, 4, 5, 7} THEN NONE
        ELSE IF (i > 1 /\ availability[i - 1] = 3) \/ (i < n /\ availability[i + 1] = 1)
             THEN NONE
        ELSE IF i > 1 /\ availability[i - 1] = 6 /\ avail = 0 THEN NIGHT_ONLY
        ELSE IF avail = 0 /\ i < n /\ availability[i + 1] = 4 THEN DAY_ONLY
        ELSE IF i > 1 /\ i < n /\ availability[i - 1] = 0
                /\ availability[i + 1] = 0 THEN EITHER
        ELSE NONE

\* Lines 52-63: the entry appended for Python index i - 1.
WatchbillAt(availability, i) ==
    LET n == Len(availability)
        avail == availability[i]
    IN  IF avail \in {1, 2, 3, 4, 5, 7} THEN NONE
        ELSE IF (i > 1 /\ availability[i - 1] = 3) \/ (i < n /\ availability[i + 1] = 1)
             THEN NONE
        ELSE IF i > 1 /\ availability[i - 1] = 6 /\ avail = 0 THEN NIGHT_ONLY
        ELSE IF avail = 0 /\ i < n /\ availability[i + 1] = 4 THEN DAY_ONLY
        ELSE IF i > 1 /\ avail = 0 /\ i < n /\ availability[i - 1] = 0
                /\ availability[i + 1] = 0 THEN EITHER
        ELSE NONE

\* Lines 48-64.
watchbill_availability(availability) ==
    [i \in 1..Len(availability) |-> WatchbillAt(availability, i)]

-----------------------------------------------------------------------------
(* SpecEligibility: watchbill_availability(availability) as a function.    *)
(* Init draws the vector, the action makes the call.                       *)

MaxVectorLen == 3

\* The day status codes (BODY_KEY).
EligibilityCodes == 0..9

InitEligibility ==
    /\ Construct(2023, 1)
    /\ watchstanders = <<>>
    /\ actual_watch_points = EmptyDict
    /\ availability_vectors = [o \in Objects |-> EmptyDict]
    /\ watch_percentage = [o \in Objects |-> <<1, 1>>]
    /\ points_deviation = [o \in Objects |-> EmptyDict]
    /\ \E v \in UNION {[1..k -> EligibilityCodes] : k \in 0..MaxVectorLen} :
         ret = Calling("watchbill_availability", [availability |-> v])

WatchbillAvailability ==
    /\ ret.op = "watchbill_availability" /\ ret.exc = "calling"
    /\ ret' = ReturnedFor("watchbill_availability", ret.args,
                          watchbill_availability(ret.args.availability))
    /\ UNCHANGED <<year, month, month_vector, days_in_month, watchstanders,
                   actual_watch_points, availability_vectors, watch_percentage,
                   points_deviation>>

NextEligibility == WatchbillAvailability

SpecEligibility == InitEligibility /\ [][NextEligibility]_vars

\* watchbill_availability has returned.
EligibilityGiven == ret.op = "watchbill_availability" /\ ret.exc = ""

\* Section 4.3: the decision list over (previous, current, next); NoDay
\* stands for the neighbour the first or the last day does not have.
NoDay == -1
UnavailableCodes == {1, 2, 3, 4, 7}

DecisionList(previous, current, next) ==
    IF current \in UnavailableCodes THEN NONE
    ELSE IF previous = 3 \/ next = 1 THEN NONE
    ELSE IF previous = 6 /\ current = 0 THEN NIGHT_ONLY
    ELSE IF current = 0 /\ next = 4 THEN DAY_ONLY
    ELSE IF previous = 0 /\ current = 0 /\ next = 0 THEN EITHER
    ELSE NONE

\* The (previous, current, next) of day i of a vector.
Around(v, i) ==
    <<IF i > 1 THEN v[i - 1] ELSE NoDay, v[i], IF i < Len(v) THEN v[i + 1] ELSE NoDay>>

\* C15: watchbill_availability returns, for every day, the first match of
\* the decision list over (previous, current, next), NIGHT_ONLY before
\* DAY_ONLY, in a sequence as long as the vector.
C15_DecisionList ==
    EligibilityGiven =>
        LET v == ret.args.availability
        IN  /\ Len(ret.val) = Len(v)
            /\ \A i \in 1..Len(v) :
                 ret.val[i] = DecisionList(Around(v, i)[1], Around(v, i)[2], Around(v, i)[3])

\* C15 witness: a result has been returned for a day after a special
\* liberty's end (6), available (0), before a special liberty's start (4),
\* and it is NIGHT_ONLY.
C15_Witness ==
    /\ EligibilityGiven
    /\ \E i \in 2..(Len(ret.val) - 1) :
          /\ ret.args.availability[i - 1] = 6
          /\ ret.args.availability[i] = 0
          /\ ret.args.availability[i + 1] = 4
          /\ ret.val[i] = NIGHT_ONLY

\* C16: every day after a leave-end (3) and every day before a leave-start
\* (1) is NONE; the first day is decided without a previous day and the
\* last day without a next one (no read out of range or wrapped around).
C16_Boundary ==
    EligibilityGiven =>
        LET v == ret.args.availability
            n == Len(v)
        IN  /\ \A i \in 1..n :
                 ((i > 1 /\ v[i - 1] = 3) \/ (i < n /\ v[i + 1] = 1))
                    => ret.val[i] = NONE
            /\ n >= 1 =>
                 /\ ret.val[1] = DecisionList(NoDay, v[1], Around(v, 1)[3])
                 /\ ret.val[n] = DecisionList(Around(v, n)[1], v[n], NoDay)

\* C16 witness: a result has been returned for a vector of three days that
\* ends with a leave-end (3), and its first day is not NONE.
C16_Witness ==
    /\ EligibilityGiven
    /\ Len(ret.val) = 3
    /\ ret.args.availability[3] = 3
    /\ ret.val[1] # NONE

\* The days of v far from day i: all but i - 1, i and i + 1.
FarFrom(v, i) == (1..Len(v)) \ {i - 1, i, i + 1}

\* v with the days far from day i replaced by those of f.
ReplacedFar(v, i, f) == [k \in 1..Len(v) |-> IF k \in FarFrom(v, i) THEN f[k] ELSE v[k]]

\* C17: two vectors of the same length that agree at i - 1, i and i + 1
\* get the same eligibility at i, whatever the other days hold.
C17_Locality ==
    EligibilityGiven =>
        \A i \in 1..Len(ret.val) :
            \A f \in [FarFrom(ret.args.availability, i) -> EligibilityCodes] :
                watchbill_availability(ReplacedFar(ret.args.availability, i, f))[i]
                    = ret.val[i]

\* C17 witness: a result has been returned in which day 3 is NIGHT_ONLY
\* and day 1, two days before it, is a leave's end.
C17_Witness ==
    /\ EligibilityGiven
    /\ Len(ret.val) = 3
    /\ ret.val[3] = NIGHT_ONLY
    /\ ret.args.availability[1] = 3

-----------------------------------------------------------------------------
(* watchbill_model.py: WatchbillModel(month_vector, watchstanders), built   *)
(* from a Month's calendar and roster. Floats are exact rationals; the     *)
(* test of rule 6 follows the rounding of the float (FloatOffset).          *)

\* VALUE_KEY["Working hour"] (0.75), ["Off duty hour"], ["Weekend/Holiday Hour"]
wh == <<3, 4>>
wodh == <<1, 1>>
weh == <<3, 1>>

\* Lines 21-26: the total of one day of the month vector.
DayTotal(day) ==
    IF day = 0 THEN RatAdd(RatMul(Rat(16), wodh), RatMul(Rat(8), wh))
    ELSE IF day = 1
         THEN RatAdd(RatAdd(RatMul(Rat(8), wodh), RatMul(Rat(8), wh)), RatMul(Rat(8), weh))
    ELSE RatMul(Rat(24), weh)

\* Line 28: raise ValueError("Invalid input in month vector")
InvalidMonthVector == \E i \in 1..Len(month_vector) : month_vector[i] \notin {0, 1, 2, 3}

\* Lines 17-29.
monthly_total == [i \in 1..Len(month_vector) |-> DayTotal(month_vector[i])]

\* Lines 31-33.
monthly_total_score == SumList(monthly_total, 1, Len(month_vector))

\* What personnel_availability_vector raises, "" if it returns: the fault
\* of the first entry that has one (lines 39-45).
PersonnelFault(availability) ==
    LET FaultAt(i) ==
            IF availability[i] \in {0, 4, 5, 6}
            THEN (IF i > Len(month_vector) THEN "IndexError" ELSE "")
            ELSE IF availability[i] \in {1, 2, 3, 7} THEN ""
            ELSE "ValueError"
        bad == {i \in 1..Len(availability) : FaultAt(i) # ""}
    IN  IF bad = {} THEN "" ELSE FaultAt(CHOOSE i \in bad : \A k \in bad : i <= k)

\* Lines 35-46.
personnel_availability_vector(availability) ==
    [i \in 1..Len(availability) |->
        IF availability[i] \in {0, 4, 5, 6} THEN monthly_total[i] ELSE <<0, 1>>]

\* Lines 73-75: watchstand_avail_vector.
WatchstandAvailVector(availability_matrix) ==
    [p \in 1..Len(availability_matrix) |->
        SumList(personnel_availability_vector(availability_matrix[p]),
                1, Len(availability_matrix[p]))]

\* What expected_watch_vector raises, "" if it returns: monthly_total's
\* ValueError, the first row's fault, the division of line 78.
ExpectedWatchFault(availability_matrix) ==
    LET bad == {p \in 1..Len(availability_matrix) :
                    PersonnelFault(availability_matrix[p]) # ""}
        command_availability ==
            SumList(WatchstandAvailVector(availability_matrix), 1, Len(availability_matrix))
    IN  IF InvalidMonthVector THEN "ValueError"
        ELSE IF bad # {}
             THEN PersonnelFault(availability_matrix[CHOOSE p \in bad : \A k \in bad : p <= k])
        ELSE IF Len(availability_matrix) > 0 /\ command_availability = <<0, 1>>
             THEN "ZeroDivisionError"
        ELSE ""

\* Lines 66-79.
expected_watch_vector(availability_matrix) ==
    LET w == WatchstandAvailVector(availability_matrix)
        command_availability == SumList(w, 1, Len(availability_matrix))
    IN  [p \in 1..Len(availability_matrix) |->
            RatMul(RatDiv(w[p], command_availability), monthly_total_score)]

\* f[1] \o ... \o f[n]: the entries appended to a list by a loop.
RECURSIVE Appended(_, _)
Appended(f, n) == IF n = 0 THEN <<>> ELSE Appended(f, n - 1) \o f[n]

\* A feedback string is modelled by what it holds: <<rule>>, for rules 1
\* and 9 <<rule, name>>, for rule 6 <<6, name, total_watches, expected>>.

\* Lines 114-118: IndexError of watchbill[i] or self.month_vector[j].
Rule1Fault(watchbill) ==
    \E i \in 1..Len(watchstanders) :
        /\ IsNHead(watchstanders[i])
        /\ \/ i > Len(watchbill)
           \/ \E j \in 1..Len(watchbill[i]) :
                 watchbill[i][j] = 1 /\ j > Len(month_vector)

\* Lines 114-118.
Rule1Feedback(watchbill) ==
    Appended([i \in 1..Len(watchstanders) |->
                IF IsNHead(watchstanders[i])
                THEN Appended([j \in 1..Len(watchbill[i]) |->
                                 IF watchbill[i][j] = 1 /\ month_vector[j] # 0
                                 THEN <<<<1, Name(watchstanders[i])>>>>
                                 ELSE <<>>],
                              Len(watchbill[i]))
                ELSE <<>>],
             Len(watchstanders))

\* A variant of the tests below whose rule 5 does not look at the day's own
\* assignment: any day followed by an unavailable entry is reported.
RowRuleHitAnyShift(rule, person, j) ==
    CASE rule = 2 -> j > 1 /\ person[j - 1] \in {1, 2, 3, 4, 5, 7} /\ person[j] # 0
      [] rule = 3 -> j > 2 /\ person[j - 2] \in {1, 2, 3, 4, 5, 7} /\ person[j] = 1
      [] rule = 4 -> j < Len(person) /\ person[j + 1] \in {1, 2, 3, 4, 5, 7}
                       /\ person[j] # 0
      [] rule = 5 -> j < Len(person) /\ person[j + 1] \in {1, 2, 3, 4, 5, 7}

\* The tests of rule 2 (lines 123-124), 3 (130-131), 4 (137-138) and 5
\* (144-145) on entry j of a row of the watchbill.
RowRuleHit(rule, person, j) ==
    CASE rule = 2 -> j > 1 /\ person[j - 1] \in {1, 2, 3, 4, 5, 7} /\ person[j] # 0
      [] rule = 3 -> j > 2 /\ person[j - 2] \in {1, 2, 3, 4, 5, 7} /\ person[j] = 1
      [] rule = 4 -> j < Len(person) /\ person[j + 1] \in {1, 2, 3, 4, 5, 7}
                       /\ person[j] # 0
      [] rule = 5 -> j < Len(person) /\ person[j + 1] \in {1, 2, 3, 4, 5, 7}
                       /\ person[j] = 1

\* Lines 121-146: one loop over the rows and their entries per rule.
RowRuleFeedback(watchbill, rule) ==
    Appended([i \in 1..Len(watchbill) |->
                Appended([j \in 1..Len(watchbill[i]) |->
                            IF RowRuleHit(rule, watchbill[i], j) THEN <<<<rule>>>> ELSE <<>>],
                         Len(watchbill[i]))],
             Len(watchbill))

\* sum(1 for watch in person if watch != 0)
TotalWatches(person) == Cardinality({j \in 1..Len(person) : person[j] # 0})

\* (a * 2^k) % M, by steps of ten doublings.
RECURSIVE MulPow2Mod(_, _, _)
MulPow2Mod(a, k, M) ==
    IF k = 0 THEN a % M
    ELSE IF k >= 10 THEN MulPow2Mod(((a % M) * 1024) % M, k - 10, M)
    ELSE MulPow2Mod(((a % M) * 2) % M, k - 1, M)

\* Line 78 in binary64, for whole 0 < w <= c and m whose exact w / c * m
\* is a whole number E >= 1: the float fl(fl(w / c) * m) is E + ulps * step, where
\* step is the spacing of the doubles on that side of E. The quotient is
\* rounded to 53 bits (ties to even), which leaves the error rho / c of
\* its last bit; the product with m is rounded again. The result is
\* <<ulps, E is 1 and the float lies below it>>.
FloatOffset(w, c, m) ==
    LET E == (w * m) \div c
        \* floor(log2(w / c)) and floor(log2(E))
        x1 == -(CHOOSE x \in 0..14 : w * 2 ^ x >= c /\ (x = 0 \/ w * 2 ^ (x - 1) < c))
        k == 52 - x1
        r == MulPow2Mod(w, k, c)
        odd == MulPow2Mod(w, k, 2 * c) >= c
        rho == IF 2 * r < c THEN -r
               ELSE IF 2 * r > c THEN c - r
               ELSE IF odd THEN c - r ELSE -r
        xE == CHOOSE x \in 0..14 : 2 ^ x <= E /\ E < 2 ^ (x + 1)
        below == rho < 0 /\ E = 2 ^ xE
        \* |m * rho / c| * 2^(x1 - xE), doubled below a power of two
        num == m * Abs(rho) * (IF x1 > xE THEN 2 ^ (x1 - xE) ELSE 1)
                 * (IF below THEN 2 ELSE 1)
        den == c * (IF xE > x1 THEN 2 ^ (xE - x1) ELSE 1)
        f == num \div den
        rest == num - f * den
        n == IF 2 * rest < den THEN f
             ELSE IF 2 * rest > den THEN f + 1
             ELSE IF f % 2 = 0 THEN f ELSE f + 1
    IN  <<IF rho < 0 THEN -n ELSE n, below /\ E = 1 /\ n > 0>>

\* Line 152: abs(total_watches - expected_watch[i]) > 1, where
\* expected_watch[i] is the float w / command_availability *
\* monthly_total_watch (w, command_availability and the monthly total are
\* whole numbers, exact as floats). When the exact value is not one away
\* from total_watches the rounding cannot change the test; when it is, the
\* side on which the float lies decides. Below 1 the doubles are spaced
\* 2^-53 apart, and 2 - (1 - 2^-53) rounds to 1.0.
Rule6Hit(person, w, command_availability) ==
    LET total_watches == TotalWatches(person)
        m == monthly_total_score[1]
        exact == RatMul(RatDiv(w, command_availability), monthly_total_score)
        diff == RatSub(Rat(total_watches), exact)
        off == FloatOffset(w[1], command_availability[1], m)
    IN  IF Abs(diff[1]) # diff[2] THEN Abs(diff[1]) > diff[2]
        ELSE IF exact[1] = 0 THEN FALSE
        ELSE IF exact[1] = total_watches + 1 THEN off[1] > 0
        ELSE off[1] < 0 /\ ~(off[2] /\ off[1] = -1)

\* Lines 153 and 160: IndexError of self.watchstanders[i].
NameFault(watchbill) ==
    \E i \in 1..Len(watchbill) :
        /\ i > Len(watchstanders)
        /\ \/ Rule6Hit(watchbill[i], WatchstandAvailVector(watchbill)[i],
                       SumList(WatchstandAvailVector(watchbill), 1, Len(watchbill)))
           \/ TotalWatches(watchbill[i]) = 0

\* Lines 149-153.
Rule6Feedback(watchbill) ==
    LET expected_watch == expected_watch_vector(watchbill)
        w == WatchstandAvailVector(watchbill)
        command_availability == SumList(w, 1, Len(watchbill))
    IN  Appended([i \in 1..Len(watchbill) |->
                    IF Rule6Hit(watchbill[i], w[i], command_availability)
                    THEN <<<<6, Name(watchstanders[i]), TotalWatches(watchbill[i]),
                             expected_watch[i]>>>>
                    ELSE <<>>],
                 Len(watchbill))

\* Lines 158-160.
Rule9Feedback(watchbill) ==
    Appended([i \in 1..Len(watchbill) |->
                IF TotalWatches(watchbill[i]) = 0
                THEN <<<<9, Name(watchstanders[i])>>>>
                ELSE <<>>],
             Len(watchbill))

\* Lines 108-162: the outcome of evaluate_watchbill(watchbill).
EvaluateWatchbill(watchbill) ==
    LET args == [watchbill |-> watchbill]
        fault == ExpectedWatchFault(watchbill)
    IN  IF Rule1Fault(watchbill)
        THEN RaisedFor("evaluate_watchbill", args, "IndexError", "list index out of range")
        ELSE IF fault = "ValueError"
        THEN RaisedFor("evaluate_watchbill", args, "ValueError",
                       IF InvalidMonthVector THEN "Invalid input in month vector"
                       ELSE "Invalid input in availability vector")
        ELSE IF fault = "IndexError"
        THEN RaisedFor("evaluate_watchbill", args, "IndexError", "list index out of range")
        ELSE IF fault = "ZeroDivisionError"
        THEN RaisedFor("evaluate_watchbill", args, "ZeroDivisionError", "division by zero")
        ELSE IF NameFault(watchbill)
        THEN RaisedFor("evaluate_watchbill", args, "IndexError", "list index out of range")
        ELSE ReturnedFor("evaluate_watchbill", args,
                [score |-> 0,
                 feedback |-> Rule1Feedback(watchbill)
                              \o RowRuleFeedback(watchbill, 2)
                              \o RowRuleFeedback(watchbill, 3)
                              \o RowRuleFeedback(watchbill, 4)
                              \o RowRuleFeedback(watchbill, 5)
                              \o Rule6Feedback(watchbill)
                              \o Rule9Feedback(watchbill)])

evaluate_watchbill ==
    /\ ret.op = "evaluate_watchbill" /\ ret.exc = "calling"
    /\ ret' = EvaluateWatchbill(ret.args.watchbill)
    /\ UNCHANGED <<year, month, month_vector, days_in_month, watchstanders,
                   actual_watch_points, availability_vectors, watch_percentage,
                   points_deviation>>

\* Lines 88-106: shift_evaluator(shift, date). self.month_vector[date] is
\* a Python list lookup: date -1 is the last day, a date outside
\* -len..len-1 raises IndexError. Shift "0" and an unknown shift never
\* look the day up.
shift_evaluator(shift, date) ==
    LET n == Len(month_vector)
        args == [shift |-> shift, date |-> date]
        day == month_vector[IF date >= 0 THEN date + 1 ELSE n + date + 1]
        Hours(a, x, b, y) == RatAdd(RatMul(Rat(a), x), RatMul(Rat(b), y))
        invalid == RaisedFor("shift_evaluator", args, "ValueError",
                             "Invalid shift or date input")
    IN  /\ ret.exc # "calling"
        /\ ret' =
             IF shift = "0" THEN ReturnedFor("shift_evaluator", args, Rat(0))
             ELSE IF shift \notin {"D", "N"} THEN invalid
             ELSE IF ~(-n <= date /\ date < n)
             THEN RaisedFor("shift_evaluator", args, "IndexError",
                            "list index out of range")
             ELSE IF shift = "D" THEN
                 IF day = 0 THEN ReturnedFor("shift_evaluator", args, Hours(4, wodh, 8, wh))
                 ELSE IF day = 1
                 THEN ReturnedFor("shift_evaluator", args, Hours(8, wodh, 4, weh))
                 ELSE IF day \in {2, 3}
                 THEN ReturnedFor("shift_evaluator", args, RatMul(Rat(12), weh))
                 ELSE invalid
             ELSE
                 IF day = 0 THEN ReturnedFor("shift_evaluator", args, RatMul(Rat(12), wodh))
                 ELSE IF day \in {1, 2}
                 THEN ReturnedFor("shift_evaluator", args, RatMul(Rat(12), weh))
                 ELSE IF day = 3
                 THEN ReturnedFor("shift_evaluator", args, Hours(4, weh, 8, wodh))
                 ELSE invalid
        /\ UNCHANGED <<year, month, month_vector, days_in_month, watchstanders,
                       actual_watch_points, availability_vectors, watch_percentage,
                       points_deviation>>

-----------------------------------------------------------------------------
(* SpecEvaluator: evaluate_watchbill(watchbill) on a WatchbillModel of the *)
(* calendar and roster of a Month. Init draws the roster and the grid, the *)
(* action makes the call.                                                  *)

\* Sequences of distinct objects among w1 (designated role) and w2.
\* February 2025 (monthly total 1080) has no grid of up to four rows on
\* which the rounding of line 78 changes rule 6; November 2020 and a
\* month vector given by the caller have (RoundingGrids).
EvalRosters == { <<>>, <<"w1">>, <<"w2">>, <<"w1", "w2">>, <<"w2", "w1">> }

EvalVectors(d) == { AllOf(0, d), AllOf(2, d) }

\* A row of d days with the shift on the given days and NONE elsewhere.
ShiftOn(d, days, shift) == [i \in 1..d |-> IF i \in days THEN shift ELSE 0]

\* Rows of the grid: no shift; DAY or NIGHT on every day; DAY on all days
\* but the first; DAY on day 1, on day 3, on days 1 and 7; NIGHT on day 1
\* (February 2025: day 1 WEEKEND, day 3 WORKDAY, day 7 PRE_WEEKEND); a row
\* without days, and a row that holds day 1 only.
EvalRows(d) ==
    { ShiftOn(d, {}, 0), ShiftOn(d, 1..d, 1), ShiftOn(d, 1..d, 2), ShiftOn(d, 2..d, 1),
      ShiftOn(d, {1}, 1), ShiftOn(d, {3}, 1), ShiftOn(d, {1, 7}, 1), ShiftOn(d, {1}, 2),
      <<>>, <<1>> }

\* Grids on which the exact expected total of the first person is one away
\* from the watches of the row. For 30 days, four rows for November 2020
\* (monthly total 1274): NONE on three workdays (availability 66 of 3234,
\* 27 watches, exact 26, the float of line 78 is 25.999999999999996), and
\* NONE on day 1 (72 of 3276, 29 watches, exact 28, the float is
\* 28.000000000000004). Otherwise three rows of 11 days for a month vector
\* of seven WORKDAY, three PRE_WEEKEND and one WEEKEND day (monthly total
\* 340): NONE on day 1 (22 of 680, 10 watches, exact 11, the float is
\* 11.000000000000002), and NONE on days 1 and 2.
RoundingGrids(d) ==
    IF d = 30
    THEN { << ShiftOn(30, (1..30) \ {2, 3, 9}, 2), ShiftOn(30, {4, 13, 20, 27}, 2),
              ShiftOn(30, {4, 5, 6, 7, 13}, 2), ShiftOn(30, {2, 3, 5, 6, 9}, 2) >>,
           << ShiftOn(30, 2..30, 2),
              ShiftOn(30, (1..30) \ {1, 4, 5, 6, 7, 8, 13, 14, 15, 20, 27}, 2),
              ShiftOn(30, {}, 0), ShiftOn(30, {}, 0) >> }
    ELSE { << ShiftOn(11, 2..11, 2), ShiftOn(11, {}, 0), ShiftOn(11, {7}, 2) >>,
           << ShiftOn(11, 3..11, 2), ShiftOn(11, {}, 0), ShiftOn(11, {7}, 2) >> }

InitEvaluator ==
    /\ \/ /\ Construct(2025, 2)
          /\ watchstanders \in EvalRosters
          \* one row per person, or the empty grid
          /\ \E g \in [1..Len(watchstanders) -> EvalRows(days_in_month)] \cup { <<>> } :
               ret = Calling("evaluate_watchbill", [watchbill |-> g])
       \/ /\ Construct(2020, 11)
          /\ watchstanders = <<"w1", "w2", "w3", "w4">>
          /\ \E g \in RoundingGrids(30) :
               ret = Calling("evaluate_watchbill", [watchbill |-> g])
       \* WatchbillModel(month_vector, watchstanders) on a month vector of
       \* its caller (lines 8-15 take any list)
       \/ /\ year = 2025 /\ month = 2 /\ days_in_month = DaysInMonth(2025, 2)
          /\ month_vector = AllOf(0, 7) \o AllOf(1, 3) \o <<2>>
          /\ watchstanders = <<"w1", "w2", "w3">>
          /\ \E g \in RoundingGrids(11) :
               ret = Calling("evaluate_watchbill", [watchbill |-> g])
    /\ actual_watch_points = [n \in RosterNames |-> 0]
    /\ availability_vectors \in
         [Objects -> {EmptyDict} \cup
                     {TupleKey(year, month) :> v : v \in EvalVectors(days_in_month)}]
    /\ \A o \in Objects :
         (\E i \in 1..Len(watchstanders) : watchstanders[i] = o)
            <=> availability_vectors[o] # EmptyDict
    /\ watch_percentage = [o \in Objects |-> <<1, 1>>]
    /\ points_deviation = [o \in Objects |-> EmptyDict]

\* Python dates of shift_evaluator: the last day by index -1, days 1, 2, 3
\* and 7 of the month (February 2025: WEEKEND, POST_WEEKEND, WORKDAY,
\* PRE_WEEKEND), and the index one past the end.
NextEvaluator ==
    \/ evaluate_watchbill
    \/ \E shift \in {"D", "N", "0", "X"} :
       \E date \in {-1, 0, 1, 2, 6, days_in_month} :
           shift_evaluator(shift, date)

SpecEvaluator == InitEvaluator /\ [][NextEvaluator]_vars

\* evaluate_watchbill has been called and is over.
EvaluatorDone == ret.op = "evaluate_watchbill" /\ ret.exc # "calling"

\* C18: the Rule Evaluator never raises: for every roster and every grid
\* over {0, 1, 2} with one row per person (fully assigned, empty, or with
\* days missing), evaluate_watchbill returns a result that holds a list of
\* violations.
C18_NeverRaises ==
    EvaluatorDone =>
        /\ ret.exc = ""
        /\ DOMAIN ret.val.feedback = 1..Len(ret.val.feedback)

\* C19: rule 1. evaluate_watchbill emits exactly one rule-1 violation for
\* every (person, day) where a designated-role person is assigned DAY on a
\* day that is not a WORKDAY, and none for any other pair.
C19_RuleOne ==
    EvaluatorDone =>
        /\ ret.exc = ""
        /\ \A i \in 1..Len(watchstanders) :
             Cardinality({k \in 1..Len(ret.val.feedback) :
                             ret.val.feedback[k] = <<1, Name(watchstanders[i])>>})
               = IF IsNHead(watchstanders[i]) /\ i <= Len(ret.args.watchbill)
                 THEN Cardinality({j \in 1..Len(ret.args.watchbill[i]) :
                                      /\ ret.args.watchbill[i][j] = 1
                                      /\ month_vector[j] # WORKDAY})
                 ELSE 0

\* Section 4.4: the expected points of a person of the roster.
AllocatorExpected(o) ==
    IF IsNHead(o) THEN RatMul(AvailabilityFraction(VectorOf(o)), Rat(28))
    ELSE IF RatGt0(TotalWeight)
         THEN RatMul(RatDiv(RatMul(AvailabilityFraction(VectorOf(o)), watch_percentage[o]),
                            TotalWeight),
                     RemainingPool)
    ELSE <<0, 1>>

\* Section 4.6, check 6: abs(countOfAssignedShifts - expectedPoints) > 1.
Unfair(count, expected) ==
    LET diff == RatSub(Rat(count), expected)
    IN  Abs(diff[1]) > diff[2]

\* C20: rule 6. evaluate_watchbill emits a fairness violation for a person
\* exactly when the number of shifts the grid assigns to the person is more
\* than 1 away from the person's expected points of the allocator (4.4).
C20_RuleSixUsesAllocator ==
    EvaluatorDone =>
        /\ ret.exc = ""
        /\ \A i \in 1..Len(ret.args.watchbill) :
             (\E k \in 1..Len(ret.val.feedback) :
                 /\ ret.val.feedback[k][1] = 6
                 /\ ret.val.feedback[k][2] = Name(watchstanders[i]))
                <=> Unfair(TotalWatches(ret.args.watchbill[i]),
                           AllocatorExpected(watchstanders[i]))

-----------------------------------------------------------------------------
(* SpecCrowd: the allocator on a roster with so many designated-role       *)
(* persons that their total exceeds the month's pool. Init draws the       *)
(* roster, the action is the allocator.                                    *)

\* Two regular persons at most, then MaxNHeads - 2 .. MaxNHeads persons of
\* the designated role, in the order they were added.
CrowdRosters ==
    {regular \o [i \in 1..k |-> "n" \o ToString(i)] :
        regular \in { <<"w2">>, <<"w2", "w3">> }, k \in (MaxNHeads - 2)..MaxNHeads}

InitCrowd ==
    /\ \E ym \in AllocMonths : Construct(ym[1], ym[2])
    /\ watchstanders \in CrowdRosters
    /\ actual_watch_points = [n \in RosterNames |-> 0]
    \* the crowd is on special liberty (4) or on leave (2) all month
    /\ \E crowd \in {AllOf(4, days_in_month), AllOf(2, days_in_month)} :
       \E regular \in [{"w2", "w3"} -> {AllOf(0, days_in_month), AllOf(4, days_in_month),
                                        Half(days_in_month)}] :
         availability_vectors =
            [o \in Objects \cup NHeadCrowd |->
                IF o \notin RosterSet THEN EmptyDict
                ELSE TupleKey(year, month) :> (IF IsNHead(o) THEN crowd ELSE regular[o])]
    /\ \E share \in [{"w2", "w3"} -> { <<1, 1>>, <<1, 2>> }] :
         watch_percentage =
            [o \in Objects \cup NHeadCrowd |->
                IF o \in RosterSet /\ ~IsNHead(o) THEN share[o] ELSE <<1, 1>>]
    /\ points_deviation = [o \in Objects \cup NHeadCrowd |-> EmptyDict]
    /\ ret = Returned("add_watchstander", NoneVal)

NextCrowd == calculate_expected_watch_points

SpecCrowd == InitCrowd /\ [][NextCrowd]_vars

\* C21: when the designated-role total exceeds the month's pool, the
\* remaining pool is negative and is handed on as it is: every regular
\* person's expected points are (weight / totalWeight) x remainingPool,
\* which is <= 0; nothing is clamped to 0 and nothing is raised.
C21_NegativePoolPropagates ==
    (ret.op = "calculate_expected_watch_points"
        /\ RatGt0(RatSub(DesignatedTotal, Rat(MonthlyPool(month_vector))))
        /\ RatGt0(TotalWeight))
      => /\ ret.exc = ""
         /\ \A o \in RosterSet :
              ~IsNHead(o) =>
                 /\ ret.val[Name(o)] = AllocatorExpected(o)
                 /\ ret.val[Name(o)][1] <= 0

\* C22: the allocator never divides by zero. For an empty roster it returns
\* an empty map; when the total weight of the regular persons is 0 every
\* regular person's expected is 0; a designated-role person whose vector
\* for the month is empty or missing gets 0.
C22_NoDivisionByZero ==
    ret.op = "calculate_expected_watch_points" =>
        /\ ret.exc # "ZeroDivisionError"
        /\ watchstanders = <<>> => (ret.exc = "" /\ DOMAIN ret.val = {})
        /\ ret.exc = "" =>
             \A o \in RosterSet :
                /\ (~IsNHead(o) /\ TotalWeight = <<0, 1>>) => ret.val[Name(o)] = <<0, 1>>
                /\ (IsNHead(o) /\ VectorOf(o) = <<>>) => ret.val[Name(o)] = <<0, 1>>

-----------------------------------------------------------------------------
(* Holiday adjustments of generate_month_vector, on SpecCalendar *)

\* C23 as stated: for every holiday of the month on a Thursday, Friday or
\* Monday, the day before is PRE_WEEKEND, the holiday and the day after are
\* WEEKEND, each only where the day exists; days that no Thursday, Friday,
\* Monday or Tuesday holiday reaches keep the code given by the weekday and
\* the custom days off, so a holiday on the 1st leaves the last day alone
\* and a Wednesday, Saturday or Sunday holiday changes nothing.
C23_HolidayAdjustment ==
    CalendarBuilt =>
        LET y == ret.args.year
            m == ret.args.month
            n == DaysInMonth(y, m)
            H == MonthHolidays(y, m)
            reached == UNION {{h - 1, h, h + 1} :
                                h \in {g \in H : Weekday(y, m, g) \in {0, 1, 3, 4}}}
            base == ApplyDaysOff(DefaultVector(y, m), ret.args.days_off)
        IN  /\ Len(ret.val) = n
            /\ \A h \in H :
                  Weekday(y, m, h) \in {3, 4, 0} =>
                     /\ h - 1 >= 1 => ret.val[h - 1] = PRE_WEEKEND
                     /\ ret.val[h] = WEEKEND
                     /\ h + 1 <= n => ret.val[h + 1] = WEEKEND
            /\ \A d \in (1..n) \ reached : ret.val[d] = base[d]

\* C23, amended: the same for every (year, month) but the hard-coded
\* February 2025, whose literal sequence is returned with its Monday
\* holiday left a WORKDAY.
C23_HolidayAdjustmentExceptOverride ==
    /\ (CalendarBuilt /\ ~(ret.args.year = 2025 /\ ret.args.month = 2)) =>
          LET y == ret.args.year
              m == ret.args.month
              n == DaysInMonth(y, m)
              H == MonthHolidays(y, m)
              reached == UNION {{h - 1, h, h + 1} :
                                  h \in {g \in H : Weekday(y, m, g) \in {0, 1, 3, 4}}}
              base == ApplyDaysOff(DefaultVector(y, m), ret.args.days_off)
          IN  /\ Len(ret.val) = n
              /\ \A h \in H :
                    Weekday(y, m, h) \in {3, 4, 0} =>
                       /\ h - 1 >= 1 => ret.val[h - 1] = PRE_WEEKEND
                       /\ ret.val[h] = WEEKEND
                       /\ h + 1 <= n => ret.val[h + 1] = WEEKEND
              /\ \A d \in (1..n) \ reached : ret.val[d] = base[d]
    /\ (CalendarBuilt /\ ret.args.year = 2025 /\ ret.args.month = 2) =>
          /\ MonthHolidays(2025, 2) = {3}
          /\ Weekday(2025, 2, 3) = 0
          /\ ret.val[3] = WORKDAY

\* C23 witness: a vector has been returned for a month whose 1st is a
\* Thursday, Friday or Monday holiday and whose last day is a custom day
\* off: the 1st and the 2nd are WEEKEND and the last day is still WEEKEND.
C23_Witness ==
    /\ CalendarBuilt
    /\ 1 \in MonthHolidays(ret.args.year, ret.args.month)
    /\ Weekday(ret.args.year, ret.args.month, 1) \in {3, 4, 0}
    /\ ret.args.days_off = {Len(ret.val)}
    /\ ret.val[1] = WEEKEND /\ ret.val[2] = WEEKEND
    /\ ret.val[Len(ret.val)] = WEEKEND

\* Section 4.1, step 3: the rule table of federal holidays, as <<month,
\* day>> dates of year y. The nth weekday wd of month m is 7 * (n - 1) days
\* after the first one; the last one is at most 6 days before the last day.
RuleTableHolidays(y) ==
    LET Nth(m, wd, n) == 1 + ((wd - Weekday(y, m, 1)) % 7) + 7 * (n - 1)
        Last(m, wd) ==
            DaysInMonth(y, m) - ((Weekday(y, m, DaysInMonth(y, m)) - wd) % 7)
    IN  { <<1, 1>>, <<1, Nth(1, 0, 3)>>, <<2, Nth(2, 0, 3)>>, <<5, Last(5, 0)>>,
          <<6, 19>>, <<7, 4>>, <<9, Nth(9, 0, 1)>>, <<10, Nth(10, 0, 2)>>,
          <<11, 11>>, <<11, Nth(11, 3, 4)>>, <<12, 25>> }

\* C24: for every year, get_federal_holidays(year) contains the dates of
\* the rule table: the 3rd Monday of January and of February, the last
\* Monday of May, the 1st Monday of September, the 2nd Monday of October,
\* the 4th Thursday of November, and the five fixed dates.
C24_RuleTableDates ==
    ret.op = "generate_month_vector" =>
        RuleTableHolidays(ret.args.year) \subseteq get_federal_holidays(ret.args.year)

\* C25 as stated: for every holiday of the month on a Tuesday, the holiday
\* and the day after it are WEEKEND and the day two before the holiday is
\* WEEKEND, each only where the day exists.
C25_TuesdayTwoBefore ==
    CalendarBuilt =>
        \A h \in MonthHolidays(ret.args.year, ret.args.month) :
            Weekday(ret.args.year, ret.args.month, h) = 1 =>
               /\ ret.val[h] = WEEKEND
               /\ h + 1 <= Len(ret.val) => ret.val[h + 1] = WEEKEND
               /\ h - 2 >= 1 => ret.val[h - 2] = WEEKEND

\* C25, amended: for every holiday of the month on a Tuesday, the holiday,
\* the day after it and the day BEFORE it (the Monday) are WEEKEND, each
\* only where the day exists; the day two before the holiday is not
\* written: it keeps the code its weekday and the custom days off give it.
C25_TuesdayDayBefore ==
    CalendarBuilt =>
        LET y == ret.args.year
            m == ret.args.month
            base == ApplyDaysOff(DefaultVector(y, m), ret.args.days_off)
        IN  \A h \in MonthHolidays(y, m) :
                Weekday(y, m, h) = 1 =>
                   /\ ret.val[h] = WEEKEND
                   /\ h + 1 <= Len(ret.val) => ret.val[h + 1] = WEEKEND
                   /\ h - 1 >= 1 => ret.val[h - 1] = WEEKEND
                   /\ h - 2 >= 1 => ret.val[h - 2] = base[h - 2]

\* C25 witness: a vector has been returned for a month with a Tuesday
\* holiday after the 2nd and no custom day off: the Monday before it is
\* WEEKEND and the Sunday before that is still POST_WEEKEND.
C25_Witness ==
    /\ CalendarBuilt
    /\ ret.args.days_off = {}
    /\ \E h \in MonthHolidays(ret.args.year, ret.args.month) :
          /\ Weekday(ret.args.year, ret.args.month, h) = 1
          /\ h > 2
          /\ ret.val[h - 1] = WEEKEND
          /\ ret.val[h - 2] = POST_WEEKEND

-----------------------------------------------------------------------------
(* Rules 2, 4 and 5 of evaluate_watchbill, on SpecEvaluator *)

\* C26: rule 5 refines rule 4. Whenever evaluate_watchbill returns, it has
\* emitted one rule-5 message per (person, day) with DAY assigned and the
\* next day's entry in the unavailable set, one rule-4 message per (person,
\* day) with any shift assigned and the next day's entry in that set, so
\* every rule-5 pair is a rule-4 pair and the rule-5 messages are no more
\* than the rule-4 messages; and one rule-2 message per (person, day) with
\* any shift assigned and the previous day's entry in the set, so rules 2
\* and 4 are never emitted for a day whose own assignment is NONE.
C26_RuleFiveRefinesRuleFour ==
    (EvaluatorDone /\ ret.exc = "") =>
        LET g == ret.args.watchbill
            fb == ret.val.feedback
            Count(rule) == Cardinality({k \in 1..Len(fb) : fb[k] = <<rule>>})
            Cells == {c \in (1..Len(g)) \X (1..days_in_month) : c[2] <= Len(g[c[1]])}
            Followed == {c \in Cells : /\ c[2] < Len(g[c[1]])
                                        /\ g[c[1]][c[2] + 1] \in {1, 2, 3, 4, 5, 7}}
            Preceded == {c \in Cells : /\ c[2] > 1
                                        /\ g[c[1]][c[2] - 1] \in {1, 2, 3, 4, 5, 7}}
            Shift(c) == g[c[1]][c[2]]
        IN  /\ Count(5) = Cardinality({c \in Followed : Shift(c) = 1})
            /\ Count(4) = Cardinality({c \in Followed : Shift(c) # NONE})
            /\ Count(2) = Cardinality({c \in Preceded : Shift(c) # NONE})
            /\ Count(5) <= Count(4)

\* C26 witness: evaluate_watchbill has returned rule-5 messages and more
\* rule-4 messages than rule-5 messages.
C26_Witness ==
    /\ EvaluatorDone /\ ret.exc = ""
    /\ \E k \in 1..Len(ret.val.feedback) : ret.val.feedback[k] = <<5>>
    /\ Cardinality({k \in 1..Len(ret.val.feedback) : ret.val.feedback[k] = <<5>>})
          < Cardinality({k \in 1..Len(ret.val.feedback) : ret.val.feedback[k] = <<4>>})

-----------------------------------------------------------------------------
(* Month.calculate_total_availability, on Spec *)

\* C27: calculate_total_availability returns, for every person of the
\* roster, the number of days of the roster's (year, month) on which the
\* person's status is in {0, 4, 5, 6, 7, 8, 9}; for a person with an
\* all-available vector that is days-in-month.
C27_AvailableDays ==
    ret.op = "calculate_total_availability" =>
        /\ ret.exc = ""
        /\ DOMAIN ret.val = RosterNames
        /\ \A o \in RosterSet :
              ret.val[Name(o)] =
                 Cardinality({i \in 1..Len(VectorOf(o)) :
                                 VectorOf(o)[i] \in AllocationAvailable})

-----------------------------------------------------------------------------
(* The ledger and the roster, on Spec *)

\* C28: after any sequence of add_watchstander, remove_watchstander and
\* add_watch calls, successful or failing, the names that hold an
\* accumulator are the names of the roster; a step that takes a name out of
\* the roster takes its accumulator out of the ledger, and a step that
\* brings a name into the roster sets its accumulator to 0, whatever the
\* name had accumulated before.
C28_LedgerKeysAreRosterKeys ==
    /\ [](DOMAIN actual_watch_points = RosterNames)
    /\ [][ /\ \A n \in RosterNames \ RosterNames' :
                 n \notin DOMAIN actual_watch_points'
           /\ \A n \in RosterNames' \ RosterNames :
                 /\ n \in DOMAIN actual_watch_points'
                 /\ actual_watch_points'[n] = 0
           /\ \A o \in LedgerObjects :
                 (remove_watchstander(o) /\ Name(o) \in RosterNames)
                    => Name(o) \notin RosterNames'
         ]_vars

\* C28 witness: add_watchstander has just brought a into a roster in which
\* b already holds points: a's accumulator is 0 and b's is kept.
C28_Witness ==
    /\ ret.op = "add_watchstander" /\ ret.exc = ""
    /\ watchstanders = <<"w2", "w1">>
    /\ actual_watch_points["a"] = 0
    /\ actual_watch_points["b"] > 0

-----------------------------------------------------------------------------
(* WatchbillModel.shift_evaluator against the points of Month.add_watch *)

\* C29: the two point valuations agree. For every shift D or N and every
\* day of the month, of whatever classification, shift_evaluator returns
\* the points that add_watch credits for a watch of that shift on a day of
\* that classification.
C29_ValuationsAgree ==
    (/\ ret.op = "shift_evaluator"
     /\ ret.args.shift \in {"D", "N"}
     /\ ret.args.date \in 0..(days_in_month - 1))
        => /\ ret.exc = ""
           /\ ret.val = Rat(WatchPoints(ret.args.shift, month_vector[ret.args.date + 1]))

-----------------------------------------------------------------------------
(* Own status and the ends of the vector, on SpecEligibility *)

\* C30: in the output of watchbill_availability a day is non-NONE only if
\* its own status is 0, so every day of status 1 to 9 is NONE; the first
\* day is NONE or DAY_ONLY and the last day NONE or NIGHT_ONLY, never
\* EITHER, even when every day of the vector is available.
C30_OwnStatusAndEnds ==
    EligibilityGiven =>
        LET v == ret.args.availability
            n == Len(v)
        IN  /\ \A i \in 1..n : ret.val[i] # NONE => v[i] = 0
            /\ \A i \in 1..n : v[i] \in 1..9 => ret.val[i] = NONE
            /\ n >= 1 =>
                 /\ ret.val[1] \in {NONE, DAY_ONLY}
                 /\ ret.val[n] \in {NONE, NIGHT_ONLY}

\* C30 witness: a result has been returned for a vector of three available
\* days: the middle day is EITHER, the first and the last are NONE.
C30_Witness ==
    /\ EligibilityGiven
    /\ ret.args.availability = <<0, 0, 0>>
    /\ ret.val = <<NONE, EITHER, NONE>>

=============================================================================
